---- MODULE Spec2Model ----
(***************************************************************************)
(* Model of the universal RL decision loop: the Safety Gate                *)
(* (rl/safety_constraints.py), the reward model (rl/advanced_rewards.py),  *)
(* the Policy Store (rl/universal_controller.py), the cycle runner         *)
(* (run_universal_rl_cycle.py), spec loading and the action space          *)
(* (rl/app_action_space.py), the state key (rl/app_state_mapper.py) and    *)
(* the dynamic state detector (rl/dynamic_state_detector.py).              *)
(*                                                                         *)
(* Python strings that take part in key building or splitting are modelled *)
(* as sequences of chunks: "_" is the delimiter chunk, every other chunk   *)
(* is a delimiter-free piece of text, so "scale_up" is <<"scale","_","up">>*)
(* and str.split('_') acts on the sequence the way it acts on the text.    *)
(***************************************************************************)
EXTENDS Integers, Sequences, FiniteSets, TLC

(***************************************************************************)
(* Bounds of the model.                                                    *)
(***************************************************************************)
\* the ledger capacity of _log_action_attempt is 1000 in the source; the
\* model keeps the same append-then-truncate code with a small capacity so
\* that eviction is reachable
HistoryCap == 3
\* gate calls explored with the broad input set
MaxCallsGate == 2
\* gate calls explored with the narrow (rate-limit) input set
MaxCallsRate == 6
\* the clock advances in steps of TickStep seconds up to MaxTime
TickStep == 30
MaxTime == 60

(***************************************************************************)
(* Strings and dictionaries.                                               *)
(***************************************************************************)
Deploy == <<"deploy">>
Stop == <<"stop">>
Restart == <<"restart">>
ScaleUp == <<"scale", "_", "up">>
ScaleDown == <<"scale", "_", "down">>
Rollback == <<"rollback">>

Prod == <<"prod">>
Stage == <<"stage">>
Web == <<"web">>
SampleBackend == <<"sample", "_", "backend">>

\* dict.get(key, default)
Get(d, k, default) == IF k \in DOMAIN d THEN d[k] ELSE default

\* x in list
InList(x, list) == \E i \in DOMAIN list : list[i] = x

\* the empty dict {}
EmptyDict == <<>>

Min(a, b) == IF a <= b THEN a ELSE b
Max(a, b) == IF a >= b THEN a ELSE b

VARIABLES
    schema,             \* SafetyConstraints.schema (constraints + enforcement_level)
    action_history,     \* SafetyConstraints.action_history
    policy_violations,  \* SafetyConstraints.policy_violations
    now,                \* datetime.now().timestamp(), in seconds
    attempt_log,        \* every enforce_constraints call so far, with its result
    rw_in,              \* arguments of a calculate_reward call
    rw_result,          \* what that call returned or raised
    q_table,            \* UniversalRLController.q_table, in insertion order
    policy_file,        \* rl/policy_runtime.json
    rl_log,             \* rows of logs/rl_universal/rl_events.csv after the header
    last_op,            \* the controller operation that ran last
    last_update,        \* arguments and locals of the last update_rl_table call
    saved_table,        \* q_table as it was at the last save_policy
    cyc,                \* locals of run_rl_cycle
    exec_calls,         \* calls received by the Executor (OrchestratorAPI)
    ld_in,              \* app_specs/<app_name>.json handed to load_app_spec
    ld_out,             \* what load_app_spec / get_valid_actions returned or raised
    key_in,             \* two (app, env, status, bucket) tuples read by extract_state
    key_out,            \* the two state keys built from them
    det_in,             \* what each telemetry provider yields for a pair
    det_out,            \* the state extract_real_state merged from them
    fb_in,              \* arguments of a get_safe_fallback_action call
    fb_out,             \* the action that call returned
    upd,                \* locals of the update_rl_table calls of two loops
    deployed_apps,      \* ShivamOrchestrator.deployed_apps
    app_status,         \* ShivamOrchestrator.app_status
    orch_out,           \* the last orchestrator call, its result and the state before it
    deployed_pairs      \* the (app, env) pairs deploy was called for

gateVars == <<schema, action_history, policy_violations, now, attempt_log>>

rewardVars == <<rw_in, rw_result>>

policyVars == <<q_table, policy_file, rl_log, last_op, last_update, saved_table>>

cycleVars == <<cyc, exec_calls>>

orchVars == <<deployed_apps, app_status, orch_out, deployed_pairs>>

otherCallVars == <<fb_in, fb_out, upd, orchVars>>

callVars == <<ld_in, ld_out, key_in, key_out, det_in, det_out, fb_in, fb_out, upd, orchVars>>

vars == <<schema, action_history, policy_violations, now, attempt_log,
          rw_in, rw_result,
          q_table, policy_file, rl_log, last_op, last_update, saved_table,
          cyc, exec_calls,
          ld_in, ld_out, key_in, key_out, det_in, det_out, fb_in, fb_out, upd,
          deployed_apps, app_status, orch_out, deployed_pairs>>

(***************************************************************************)
(* Safety Gate: rl/safety_constraints.py                                   *)
(***************************************************************************)
default_schema ==
    [ constraints |->
        [ max_workers_global |-> 10,
          max_workers_per_app |-> 3,
          min_uptime_before_action |-> 30,
          max_actions_per_minute |-> 5,
          forbidden_prod_actions |-> <<Stop>>,
          required_approval_actions |-> <<ScaleUp>> ],
      enforcement_level |-> "STRICT" ]

\* a safety_schema.json found on disk replaces the default
WithConstraint(s, k, v) == [s EXCEPT !.constraints = [@ EXCEPT ![k] = v]]

FileSchemas ==
    { [default_schema EXCEPT !.enforcement_level = "ADVISORY"],
      WithConstraint(WithConstraint(default_schema, "max_workers_per_app", 2),
                     "max_actions_per_minute", 1),
      WithConstraint([default_schema EXCEPT !.enforcement_level = "ADVISORY"],
                     "forbidden_prod_actions", <<>>) }

_load_safety_schema == {default_schema} \cup FileSchemas

\* _validate_against_schema
_validate_against_schema(action, app_name, env, app_spec) ==
    LET valid_actions == Get(app_spec, "actions", <<>>)
        env_constraints == Get(app_spec, "environment_constraints", EmptyDict)
        notInSpec == IF ~InList(action, valid_actions)
                     THEN <<"not in app spec valid actions">> ELSE <<>>
        forbidden == IF env \in DOMAIN env_constraints
                     THEN Get(env_constraints[env], "forbidden_actions", <<>>)
                     ELSE <<>>
        byEnv == IF InList(action, forbidden)
                 THEN <<"forbidden in environment by app spec">> ELSE <<>>
    IN notInSpec \o byEnv

\* _get_recent_actions
_get_recent_actions_any_pair(app_name, env, seconds) ==
    LET cutoff == now - seconds
    IN SelectSeq(action_history, LAMBDA a : a.timestamp > cutoff)

_get_recent_actions(app_name, env, seconds) ==
    LET cutoff == now - seconds
    IN SelectSeq(action_history,
                 LAMBDA a : a.app_name = app_name /\ a.env = env /\ a.timestamp > cutoff)

\* the worker-limit rule
WorkerLimitBadCmp(current_workers, max_allowed) == current_workers > max_allowed

WorkerLimitCmp(current_workers, max_allowed) == current_workers >= max_allowed

WorkerLimitRule(action, app_spec, current_state) ==
    IF action \in {ScaleUp, Deploy}
    THEN LET current_workers == Get(current_state, "workers", 1)
             max_allowed == Min(schema.constraints.max_workers_per_app,
                                Get(Get(app_spec, "scaling", EmptyDict), "max_workers", 3))
         IN IF WorkerLimitCmp(current_workers, max_allowed)
            THEN <<"Worker limit exceeded">> ELSE <<>>
    ELSE <<>>

\* the production-environment rule
ProdRuleNoEnv(action, env) ==
    IF env = <<"production">> /\ InList(action, schema.constraints.forbidden_prod_actions)
    THEN <<"forbidden in production environment">> ELSE <<>>

ProdRule(action, env) ==
    IF env = Prod /\ InList(action, schema.constraints.forbidden_prod_actions)
    THEN <<"forbidden in production environment">> ELSE <<>>

\* the minimum-uptime rule
UptimeRule(action, current_state) ==
    LET uptime == Get(current_state, "uptime", 0)
    IN IF uptime < schema.constraints.min_uptime_before_action /\ action # Deploy
       THEN <<"Minimum uptime not met">> ELSE <<>>

\* the action-frequency rule
RateCmpOffByOne(count, ceiling) == count > ceiling

RateCmp(count, ceiling) == count >= ceiling

RateRule(app_name, env) ==
    LET recent_actions == _get_recent_actions(app_name, env, 60)
    IN IF RateCmp(Len(recent_actions), schema.constraints.max_actions_per_minute)
       THEN <<"Action frequency limit exceeded">> ELSE <<>>

\* the early return of enforce_constraints
StrictBlockAnyLevel(schema_violations) ==
    schema_violations # <<>>

StrictBlock(schema_violations) ==
    schema_violations # <<>> /\ Get(schema, "enforcement_level", "NONE") = "STRICT"

\* the list enforce_constraints returns
Violations(action, app_name, env, app_spec, current_state) ==
    LET schema_violations == _validate_against_schema(action, app_name, env, app_spec)
    IN IF StrictBlock(schema_violations)
       THEN schema_violations
       ELSE schema_violations
            \o WorkerLimitRule(action, app_spec, current_state)
            \o ProdRule(action, env)
            \o UptimeRule(action, current_state)
            \o RateRule(app_name, env)

\* _log_action_attempt: append, then keep the last HistoryCap entries
KeepFirst(list, n) ==
    IF Len(list) > n THEN SubSeq(list, 1, n) ELSE list

KeepLast(list, n) ==
    IF Len(list) > n THEN SubSeq(list, Len(list) - n + 1, Len(list)) ELSE list

_log_action_attempt(action, app_name, env, violations) ==
    KeepLast(Append(action_history,
                    [ action |-> action, app_name |-> app_name, env |-> env,
                      timestamp |-> now, violations |-> violations,
                      allowed |-> (Len(violations) = 0) ]),
             HistoryCap)

\* _log_policy_violation
_log_policy_violation(action, app_name, env, violations) ==
    Append(policy_violations,
           [ timestamp |-> now, action |-> action, app_name |-> app_name,
             env |-> env, violations |-> violations,
             enforcement_level |-> Get(schema, "enforcement_level", "NONE") ])

\* every rule but the rate rule passes for this attempt
OtherRulesPass(action, app_name, env, app_spec, current_state) ==
    /\ _validate_against_schema(action, app_name, env, app_spec) = <<>>
    /\ WorkerLimitRule(action, app_spec, current_state) = <<>>
    /\ ProdRule(action, env) = <<>>
    /\ UptimeRule(action, current_state) = <<>>

\* one call of enforce_constraints
enforce_constraints(action, app_name, env, app_spec, current_state) ==
    LET schema_violations == _validate_against_schema(action, app_name, env, app_spec)
        violations == Violations(action, app_name, env, app_spec, current_state)
    IN /\ IF StrictBlock(schema_violations)
          THEN /\ policy_violations' =
                     _log_policy_violation(action, app_name, env, schema_violations)
               /\ UNCHANGED action_history
          ELSE /\ action_history' = _log_action_attempt(action, app_name, env, violations)
               /\ UNCHANGED policy_violations
       /\ attempt_log' = Append(attempt_log,
              [ action |-> action, app_name |-> app_name, env |-> env,
                timestamp |-> now, violations |-> violations,
                workers |-> Get(current_state, "workers", 1),
                max_workers |-> Get(Get(app_spec, "scaling", EmptyDict), "max_workers", 3),
                others_pass |-> OtherRulesPass(action, app_name, env, app_spec, current_state),
                level |-> Get(schema, "enforcement_level", "NONE"),
                schema_violations |-> schema_violations,
                rule_violations |-> << WorkerLimitRule(action, app_spec, current_state),
                                       ProdRule(action, env),
                                       UptimeRule(action, current_state),
                                       RateRule(app_name, env) >>,
                logged |-> ~ StrictBlock(schema_violations) ])
       /\ UNCHANGED <<schema, now>>
       /\ UNCHANGED <<rewardVars, policyVars, cycleVars, callVars>>

\* the wall clock moves between calls
Tick ==
    /\ now + TickStep <= MaxTime
    /\ now' = now + TickStep
    /\ UNCHANGED <<schema, action_history, policy_violations, attempt_log>>
    /\ UNCHANGED <<rewardVars, policyVars, cycleVars, callVars>>

\* SafetyConstraints.__init__
GateInit ==
    /\ schema \in _load_safety_schema
    /\ action_history = <<>>
    /\ policy_violations = <<>>
    /\ now = 0
    /\ attempt_log = <<>>

\* enforce_safety: raise SafetyViolationError when the gate returns violations
enforce_safety(violations) ==
    IF violations # <<>> THEN "SafetyViolationError" ELSE "True"

(***************************************************************************)
(* Inputs of the Safety Gate.                                              *)
(***************************************************************************)
AllActions == <<Deploy, Stop, Restart, ScaleUp, ScaleDown>>

\* the spec run_universal_rl_cycle.create_default_spec writes: no "actions" key
DefaultFileSpec ==
    [ name |-> Web, type |-> <<"backend">>,
      scaling |-> [enabled |-> TRUE, min_workers |-> 1, max_workers |-> 3],
      custom_actions |-> <<>> ]

\* a spec that declares its action set, scaling capped at 2 workers
DeclaredSpec ==
    [ name |-> Web, type |-> <<"backend">>, actions |-> AllActions,
      scaling |-> [enabled |-> TRUE, min_workers |-> 1, max_workers |-> 2] ]

\* a spec with per-environment restrictions and no scaling block
EnvConstrainedSpec ==
    [ name |-> Web, type |-> <<"backend">>, actions |-> AllActions,
      environment_constraints |->
          (Prod :> [forbidden_actions |-> <<ScaleUp>>]) @@ (Stage :> EmptyDict) ]

GateSpecs == {DefaultFileSpec, DeclaredSpec, EnvConstrainedSpec}

GateActions == {Deploy, Stop, Restart, ScaleUp, ScaleDown}

GatePairs == {<<Web, Prod>>, <<Web, Stage>>}

\* the current_state dicts handed to the gate; absent keys take the defaults
GateStates ==
    { [status |-> "healthy", workers |-> w, uptime |-> 60] : w \in {2, 3} }
    \cup { [status |-> "degraded"] }

\* inputs for which only the uptime rule or the rate rule can block
RateStates == { [status |-> "healthy", workers |-> 1, uptime |-> u] : u \in {0, 60} }

RateSchemas ==
    { WithConstraint(default_schema, "max_actions_per_minute", n) : n \in {1, 2} }

GateCall ==
    /\ Len(attempt_log) < MaxCallsGate
    /\ \E action \in GateActions, pair \in GatePairs, app_spec \in GateSpecs,
          current_state \in GateStates :
          enforce_constraints(action, pair[1], pair[2], app_spec, current_state)

RateCall ==
    /\ Len(attempt_log) < MaxCallsRate
    /\ \E pair \in GatePairs, current_state \in RateStates :
          enforce_constraints(Restart, pair[1], pair[2], DeclaredSpec, current_state)

\* attempts that pass the schema check (DeclaredSpec) or fail it (a spec
\* without an 'actions' list), every rule but the rate rule passing
WindowSpecs == {DeclaredSpec, DefaultFileSpec}

WindowCall ==
    /\ Len(attempt_log) < MaxCallsRate
    /\ \E pair \in GatePairs, app_spec \in WindowSpecs :
          enforce_constraints(Restart, pair[1], pair[2], app_spec,
                              [status |-> "healthy", workers |-> 1, uptime |-> 60])

RateInit ==
    /\ schema \in RateSchemas
    /\ action_history = <<>>
    /\ policy_violations = <<>>
    /\ now = 0
    /\ attempt_log = <<>>

(***************************************************************************)
(* Reward model: rl/advanced_rewards.py.  Fractions (error_rate, cpu_usage,*)
(* memory_usage) are carried in hundredths, latencies in milliseconds,     *)
(* uptime in seconds; a reward is the exact rational num/den.              *)
(***************************************************************************)
Abs(x) == IF x < 0 THEN -x ELSE x

\* status_values.get(status, 0)
StatusValue(status) ==
    CASE status = "failed" -> 0
      [] status = "degraded" -> 1
      [] status = "healthy" -> 2
      [] OTHER -> 0

\* _stability_reward (a whole number)
_stability_reward(prev_state, new_state) ==
    LET prev_status == Get(prev_state, "status", "unknown")
        new_status == Get(new_state, "status", "unknown")
        improvement == StatusValue(new_status) - StatusValue(prev_status)
    IN IF improvement > 0 THEN improvement * 3
       ELSE IF improvement < 0 THEN improvement * 2
       ELSE IF new_status = "healthy" THEN 1 ELSE 0

\* _performance_reward = PerfNum / (10 * prev_latency); the division by
\* prev_latency raises ZeroDivisionError when prev_latency = 0
PerfNum(prev_state, new_state) ==
    LET prev_latency == Get(prev_state, "avg_latency", 100)
        new_latency == Get(new_state, "avg_latency", 100)
        prev_error == Get(prev_state, "error_rate", 0)
        new_error == Get(new_state, "error_rate", 0)
    IN 40 * (prev_latency - new_latency) + prev_latency * (prev_error - new_error)

\* _efficiency_reward = EffNum / 100
EffNum(new_state, action) ==
    LET cpu == Get(new_state, "cpu_usage", 0)
        memory == Get(new_state, "memory_usage", 0)
        cpu_efficiency == IF 60 <= cpu /\ cpu <= 80
                          THEN 100 - Abs(cpu - 70) ELSE -Abs(cpu - 70)
        memory_efficiency == IF 50 <= memory /\ memory <= 70
                             THEN 100 - Abs(memory - 60) ELSE -Abs(memory - 60)
        action_penalty == IF action \in {ScaleUp, Deploy} /\ (cpu > 80 \/ memory > 80)
                          THEN -200 ELSE 0
    IN (cpu_efficiency + memory_efficiency) * 2 + action_penalty

\* _reliability_reward = RelNum / 7200
RelNum(new_state) ==
    LET uptime == Get(new_state, "uptime", 0)
        workers == Get(new_state, "workers", 1)
        uptime_reward == Min(2 * 3600, uptime)
        worker_stability == IF 1 <= workers /\ workers <= 3
                            THEN 7200 ELSE -Abs(workers - 2) * 3600
    IN 2 * uptime_reward + worker_stability

\* max(-10, min(10, total_reward)) on the rational num/den, den > 0
Clamp(num, den) == Max(-10 * den, Min(10 * den, num))

\* calculate_reward: the weighted sum 0.3, 0.25, 0.25, 0.2 over the common
\* denominator 144000 * prev_latency, clamped
calculate_reward(prev_state, action, new_state) ==
    LET prev_latency == Get(prev_state, "avg_latency", 100)
        sign == IF prev_latency < 0 THEN -1 ELSE 1
        rawNum == 6 * 7200 * prev_latency * _stability_reward(prev_state, new_state)
                  + 5 * 720 * PerfNum(prev_state, new_state)
                  + 5 * 72 * prev_latency * EffNum(new_state, action)
                  + 4 * prev_latency * RelNum(new_state)
        den == sign * 144000 * prev_latency
    IN IF prev_latency = 0
       THEN [kind |-> "ZeroDivisionError", num |-> 0, den |-> 1]
       ELSE [kind |-> "value", num |-> Clamp(sign * rawNum, den), den |-> den]

RewardPrevStates ==
    { [status |-> s, avg_latency |-> l, error_rate |-> e] :
          s \in {"degraded", "healthy"}, l \in {0, 100, 200, -100}, e \in {5, -500} }
    \cup { [status |-> "unknown"] }

RewardNewStates ==
    { [status |-> s, avg_latency |-> l, error_rate |-> 1, cpu_usage |-> c,
       memory_usage |-> 60, uptime |-> u, workers |-> w] :
          s \in {"healthy", "failed"}, l \in {150, 2000}, c \in {70, 95},
          u \in {0, 7200}, w \in {2, 50} }
    \cup { [status |-> "healthy", avg_latency |-> l, error_rate |-> 1] : l \in {0, 150} }

RewardActions == {Restart, ScaleUp}

NoResult == [kind |-> "none", num |-> 0, den |-> 1]

\* no calculate_reward call is pending
RewardIdle ==
    /\ rw_in = [prev_state |-> [status |-> "unknown"], action |-> Restart,
                new_state |-> [status |-> "unknown"]]
    /\ rw_result = NoResult

RewardInit ==
    /\ rw_in \in [prev_state : RewardPrevStates, action : RewardActions,
                  new_state : RewardNewStates]
    /\ rw_result = NoResult

CalculateReward ==
    /\ rw_result = NoResult
    /\ rw_result' = calculate_reward(rw_in.prev_state, rw_in.action, rw_in.new_state)
    /\ UNCHANGED <<rw_in, gateVars, policyVars, cycleVars, callVars>>

(***************************************************************************)
(* Policy Store: rl/universal_controller.py.  A Python dict is a sequence  *)
(* of [key, value] items in insertion order.  Q-values and rewards are     *)
(* carried as integers in units of 1/QScale, which is exact for up to      *)
(* MaxUpdates chained updates of whole-number rewards.                     *)
(***************************************************************************)
\* update_rl_table calls explored
MaxUpdates == 2

QScale == 10 ^ (2 * MaxUpdates)

HasKey(d, k) == \E i \in DOMAIN d : d[i].key = k

\* dict.get(k, default)
DictGet(d, k, default) ==
    IF HasKey(d, k) THEN d[CHOOSE i \in DOMAIN d : d[i].key = k].value ELSE default

\* d[k] = v
DictSet(d, k, v) ==
    IF HasKey(d, k)
    THEN [i \in DOMAIN d |-> IF d[i].key = k THEN [key |-> k, value |-> v] ELSE d[i]]
    ELSE Append(d, [key |-> k, value |-> v])

\* the dict a comprehension builds from items, later items overwriting
RECURSIVE DictFromItems(_)
DictFromItems(items) ==
    IF items = <<>> THEN <<>>
    ELSE DictSet(DictFromItems(SubSeq(items, 1, Len(items) - 1)),
                 items[Len(items)].key, items[Len(items)].value)

\* the mapping a dict denotes (dict equality ignores order)
Mapping(d) == { <<d[i].key, d[i].value>> : i \in DOMAIN d }

\* position of the first "_" of a string, 0 if there is none
FirstDelim(str) ==
    IF \E i \in DOMAIN str : str[i] = "_"
    THEN CHOOSE i \in DOMAIN str : str[i] = "_" /\ \A j \in 1..(i - 1) : str[j] # "_"
    ELSE 0

\* str.split('_', 1)
SplitOnce(str) ==
    LET i == FirstDelim(str)
    IN IF i = 0 THEN <<str>>
       ELSE <<SubSeq(str, 1, i - 1), SubSeq(str, i + 1, Len(str))>>

\* str.split('_')
RECURSIVE Split(_)
Split(str) ==
    LET i == FirstDelim(str)
    IN IF i = 0 THEN <<str>>
       ELSE <<SubSeq(str, 1, i - 1)>> \o Split(SubSeq(str, i + 1, Len(str)))

\* f"{k[0]}_{k[1]}"
JoinKeyFirstWord(k) == k[1] \o <<"_">> \o <<k[2][1]>>

JoinKey(k) == k[1] \o <<"_">> \o k[2]

\* max([...], default=0.0) over the Q-values of next_state
MaxNextQ(table, next_state, valid_next_actions) ==
    LET qs == { DictGet(table, <<next_state, valid_next_actions[i]>>, 0) :
                    i \in DOMAIN valid_next_actions }
    IN IF qs = {} THEN 0 ELSE CHOOSE q \in qs : \A r \in qs : r <= q

\* current_q + alpha * (reward + gamma * max_next_q - current_q), alpha = 0.1,
\* gamma = 0.9; reward is a whole number, the Q-values are in units of 1/QScale
NewQNoDiscount(current_q, reward, max_next_q) ==
    current_q + (reward * QScale) \div 10 + (10 * max_next_q - 10 * current_q) \div 100

NewQ(current_q, reward, max_next_q) ==
    current_q + (reward * QScale) \div 10 + (9 * max_next_q - 10 * current_q) \div 100

\* f"{new_q:.4f}": new_q rounded to four decimals, in units of 1/10000
Fmt4(q) ==
    LET unit == QScale \div 10000
    IN IF unit <= 1 THEN q * (10000 \div QScale)
       ELSE (2 * q + unit) \div (2 * unit)

\* _init_log: the header row written when the event log is created
LogHeader == <<"timestamp", "app_name", "env", "state", "action", "reward", "q_value">>

\* the lines of logs/rl_universal/rl_events.csv for the data rows written
LogFile(rows) == <<LogHeader>> \o rows

\* the row update_rl_table appends to the event log
LogRow(state, action, reward, new_q) ==
    LET parts == Split(state)
    IN [ timestamp |-> now,
         app_name |-> parts[1],
         env |-> IF Len(parts) > 1 THEN parts[2] ELSE <<"unknown">>,
         state |-> state,
         action |-> action,
         reward |-> reward,
         q_value |-> Fmt4(new_q) ]

\* open(self.log_file, 'a') and writerow: the row goes after the rows on file
AppendRowTruncating(log, row) == <<row>>

AppendRow(log, row) == Append(log, row)

\* update_rl_table
update_rl_table(state, action, reward, next_state, valid_next_actions) ==
    LET current_q == DictGet(q_table, <<state, action>>, 0)
        max_next_q == MaxNextQ(q_table, next_state, valid_next_actions)
        new_q == NewQ(current_q, reward, max_next_q)
    IN /\ q_table' = DictSet(q_table, <<state, action>>, new_q)
       /\ rl_log' = AppendRow(rl_log, LogRow(state, action, reward, new_q))
       /\ last_op' = "update"
       /\ last_update' = [ state |-> state, action |-> action, reward |-> reward,
                           next_state |-> next_state,
                           valid_next_actions |-> valid_next_actions,
                           current_q |-> current_q, max_next_q |-> max_next_q,
                           new_q |-> new_q ]
       /\ UNCHANGED <<policy_file, saved_table>>

\* the q_table object save_policy writes
SavedItems(table) ==
    DictFromItems([i \in DOMAIN table |->
                      [key |-> JoinKey(table[i].key), value |-> table[i].value]])

\* save_policy
save_policy ==
    /\ policy_file' = [exists |-> TRUE, q_table |-> SavedItems(q_table)]
    /\ saved_table' = q_table
    /\ last_op' = "save"
    /\ UNCHANGED <<q_table, rl_log, last_update>>

\* the key load_policy rebuilds: tuple(k.split('_', 1))
LoadKeyUnsplit(k) == <<k>>

LoadKey(k) == SplitOnce(k)

\* the dict load_policy builds from the file
LoadedTable(items) ==
    DictFromItems([i \in DOMAIN items |->
                      [key |-> LoadKey(items[i].key), value |-> items[i].value]])

\* load_policy: a missing file leaves the table alone
load_policy ==
    /\ IF policy_file.exists
       THEN q_table' = LoadedTable(policy_file.q_table)
       ELSE UNCHANGED q_table
    /\ last_op' = "load"
    /\ UNCHANGED <<policy_file, rl_log, last_update, saved_table>>

NoUpdate ==
    [ state |-> <<>>, action |-> <<>>, reward |-> 0, next_state |-> <<>>,
      valid_next_actions |-> <<>>, current_q |-> 0, max_next_q |-> 0, new_q |-> 0 ]

\* UniversalRLController.__init__, with no policy file and an empty event log
PolicyInit ==
    /\ q_table = <<>>
    /\ policy_file = [exists |-> FALSE, q_table |-> <<>>]
    /\ rl_log = <<>>
    /\ last_op = "init"
    /\ last_update = NoUpdate
    /\ saved_table = <<>>

(***************************************************************************)
(* Decision Controller: rl/universal_controller.py, rl/app_action_space.py,*)
(* rl/app_state_mapper.py and run_universal_rl_cycle.py.                   *)
(***************************************************************************)
\* _validate_app_spec
_validate_app_spec_any_action(spec) ==
    /\ "name" \in DOMAIN spec
    /\ "type" \in DOMAIN spec
    /\ "scaling" \in DOMAIN spec =>
          /\ ~ ("max_workers" \in DOMAIN spec.scaling /\ spec.scaling.max_workers > 10)
          /\ ~ ("min_workers" \in DOMAIN spec.scaling /\ spec.scaling.min_workers < 1)

_validate_app_spec(spec) ==
    /\ "name" \in DOMAIN spec
    /\ "type" \in DOMAIN spec
    /\ "scaling" \in DOMAIN spec =>
          /\ ~ ("max_workers" \in DOMAIN spec.scaling /\ spec.scaling.max_workers > 10)
          /\ ~ ("min_workers" \in DOMAIN spec.scaling /\ spec.scaling.min_workers < 1)
    /\ "custom_actions" \in DOMAIN spec =>
          \A i \in DOMAIN spec.custom_actions :
              spec.custom_actions[i] \in
                  {Deploy, Stop, Restart, ScaleUp, ScaleDown, Rollback}

\* get_valid_actions
get_valid_actions_scaling_always(app_spec) ==
    <<Deploy, Stop, Restart>> \o <<ScaleUp, ScaleDown>>
    \o Get(app_spec, "custom_actions", <<>>)

get_valid_actions(app_spec) ==
    <<Deploy, Stop, Restart>>
    \o (IF Get(Get(app_spec, "scaling", EmptyDict), "enabled", FALSE)
        THEN <<ScaleUp, ScaleDown>> ELSE <<>>)
    \o Get(app_spec, "custom_actions", <<>>)

\* get_fallback_action
get_fallback_action(invalid_action) == Restart

\* f"err{int(error_rate * 100)}" for the error rates the telemetry reports
ErrChunk(bucket) ==
    CASE bucket = 0 -> "err0"
      [] bucket = 5 -> "err5"
      [] bucket = 12 -> "err12"
      [] OTHER -> "err100"

\* extract_state: the key built from the metrics read for (app_name, env)
extract_state(app_name, env, status, bucket) ==
    app_name \o <<"_">> \o env \o <<"_">> \o <<status>> \o <<"_">> \o <<ErrChunk(bucket)>>

\* what the telemetry can report at one read
TelemetryStatus == {"healthy", "failed"}

TelemetryBuckets == {0}

\* 'text' in key, for a text that is one of the chunks of the key
Contains(key, text) == \E i \in DOMAIN key : key[i] = text

\* n / d rounded to the nearest integer
RoundDiv(n, d) == (2 * n + d) \div (2 * d)

\* compute_reward, in hundredths
compute_reward(pre_state, post_state) ==
    LET post_status == Get(post_state, "status", "None")
        pre_status == Get(pre_state, "status", "None")
        transition == IF post_status = "healthy" /\ pre_status # "healthy" THEN 1500
                      ELSE IF post_status = "failed" THEN -2000
                      ELSE IF post_status = "degraded" THEN -500 ELSE 0
        pre_latency == Get(pre_state, "response_time", 1000)
        post_latency == Get(post_state, "response_time", 1000)
        latency == IF pre_latency > 0
                   THEN RoundDiv(1000 * (pre_latency - post_latency), pre_latency)
                   ELSE 0
        error_delta == Get(post_state, "error_rate", 0) - Get(pre_state, "error_rate", 0)
        degradation == IF error_delta > 0 THEN -(error_delta * 25)
                       ELSE Abs(error_delta) * 15
        uptime == Get(post_state, "uptime", 0)
        stability == IF post_status = "healthy"
                     THEN (IF uptime < 300 THEN -300
                           ELSE IF uptime > 3600 THEN 200 ELSE 0)
                     ELSE 0
        cpu_usage == Get(post_state, "cpu_usage", 50)
        memory_usage == Get(post_state, "memory_usage", 50)
        efficiency == IF cpu_usage < 30 /\ memory_usage < 40 THEN 100
                      ELSE IF cpu_usage > 80 \/ memory_usage > 80 THEN -200 ELSE 0
    IN transition + latency + degradation + stability + efficiency

\* create_default_spec: the spec run_rl_cycle writes when the file is missing
create_default_spec(app_name) ==
    [ name |-> app_name, type |-> <<"backend">>,
      scaling |-> [enabled |-> TRUE, min_workers |-> 1, max_workers |-> 3],
      health_check |-> [enabled |-> TRUE],
      custom_actions |-> <<>> ]

NoFile == [exists |-> FALSE, spec |-> EmptyDict]

File(spec) == [exists |-> TRUE, spec |-> spec]

\* an action name outside the vocabulary
InvalidAction == <<"invalid", "_", "action">>

\* load_app_spec on the content of app_specs/<app_name>.json: the spec, or
\* the exception raised
load_app_spec_unvalidated(app_name, file) ==
    IF ~ file.exists
    THEN [ kind |-> "FileNotFoundError", message |-> <<"App spec not found">>,
           spec |-> EmptyDict ]
    ELSE [ kind |-> "spec", message |-> <<>>, spec |-> file.spec ]

load_app_spec(app_name, file) ==
    IF ~ file.exists
    THEN [ kind |-> "FileNotFoundError", message |-> <<"App spec not found">>,
           spec |-> EmptyDict ]
    ELSE IF ~ _validate_app_spec(file.spec)
    THEN [ kind |-> "ValueError",
           message |-> <<"Invalid app spec for ">> \o app_name
                           \o <<": Schema validation failed">>,
           spec |-> EmptyDict ]
    ELSE [ kind |-> "spec", message |-> <<>>, spec |-> file.spec ]

\* the spec files a run can find for an app
SpecFileFor(app_name, kind) ==
    CASE kind = "missing" -> NoFile
      [] kind = "minimal" -> File([ name |-> app_name, type |-> <<"backend">> ])
      [] kind = "rollback" ->
             File([ name |-> app_name, type |-> <<"backend">>,
                    custom_actions |-> <<Rollback>> ])
      [] kind = "bad_action" ->
             File([ name |-> app_name, type |-> <<"backend">>,
                    custom_actions |-> <<Deploy, InvalidAction>> ])
      [] kind = "no_name" -> File([ type |-> <<"backend">> ])
      [] OTHER -> File([ name |-> app_name ])

SpecFileKinds == {"missing", "minimal", "rollback", "bad_action", "no_name", "no_type"}

CyclePairs == {<<Web, Prod>>, <<SampleBackend, Stage>>}

CycleIdle ==
    /\ cyc = [ pc |-> "idle", app_name |-> <<>>, env |-> <<>>, spec_file |-> NoFile,
               app_spec |-> EmptyDict, error |-> <<>>,
               cycles |-> 0, cycle |-> 0, state |-> <<>>, action |-> <<>>,
               chosen |-> <<>>, explored |-> FALSE, calls |-> <<>>, result |-> "none",
               total_reward |-> 0 ]
    /\ exec_calls = <<>>

\* run_rl_cycle up to the loop: load_app_spec (after create_default_spec when
\* the file is missing), then load_policy; a ValueError leaves run_rl_cycle
StartRun ==
    /\ cyc.pc = "idle"
    /\ \E pair \in CyclePairs, kind \in SpecFileKinds :
          LET file == SpecFileFor(pair[1], kind)
              first == load_app_spec(pair[1], file)
              loaded == IF first.kind = "FileNotFoundError"
                        THEN load_app_spec(pair[1], File(create_default_spec(pair[1])))
                        ELSE first
          IN IF loaded.kind = "spec"
             THEN /\ cyc' = [cyc EXCEPT !.pc = "loop", !.app_name = pair[1],
                                        !.env = pair[2], !.spec_file = file,
                                        !.app_spec = loaded.spec,
                                        !.cycles = MaxUpdates]
                  /\ load_policy
             ELSE /\ cyc' = [cyc EXCEPT !.pc = loaded.kind, !.app_name = pair[1],
                                        !.env = pair[2], !.spec_file = file,
                                        !.error = loaded.message]
                  /\ UNCHANGED policyVars
    /\ UNCHANGED <<exec_calls, gateVars, rewardVars, callVars>>

\* the Q-values choose_action compares
BestActionsLowest(state, valid_actions) ==
    LET q(a) == DictGet(q_table, <<state, a>>, 0)
    IN { valid_actions[i] : i \in { k \in DOMAIN valid_actions :
             \A j \in DOMAIN valid_actions : q(valid_actions[j]) >= q(valid_actions[k]) } }

BestActions(state, valid_actions) ==
    LET q(a) == DictGet(q_table, <<state, a>>, 0)
    IN { valid_actions[i] : i \in { k \in DOMAIN valid_actions :
             \A j \in DOMAIN valid_actions : q(valid_actions[j]) <= q(valid_actions[k]) } }

\* steps 1 to 3 of a cycle: get_state, choose_action, the action-space check
CycleChoose ==
    /\ cyc.pc = "loop"
    /\ cyc.cycle < cyc.cycles
    /\ \E status \in TelemetryStatus, bucket \in TelemetryBuckets, explore \in BOOLEAN :
          LET state == extract_state(cyc.app_name, cyc.env, status, bucket)
              valid_actions == get_valid_actions(cyc.app_spec)
              choices == IF explore
                         THEN { valid_actions[i] : i \in DOMAIN valid_actions }
                         ELSE BestActions(state, valid_actions)
          IN \E chosen \in choices :
                cyc' = [cyc EXCEPT !.pc = "chosen", !.state = state,
                                   !.explored = explore, !.chosen = chosen,
                                   !.action = IF InList(chosen, valid_actions)
                                              THEN chosen
                                              ELSE get_fallback_action(chosen)]
    /\ UNCHANGED <<exec_calls, gateVars, rewardVars, policyVars, callVars>>

\* the Executor calls execute_action makes for an action
ExecutorCallsRestartOp(action, app_name, env) ==
    CASE action = Deploy -> <<[op |-> "deploy_app", app_name |-> app_name, env |-> env]>>
      [] action = Stop -> <<[op |-> "stop_app", app_name |-> app_name, env |-> env]>>
      [] action = ScaleUp -> <<[op |-> "scale_up", app_name |-> app_name, env |-> env]>>
      [] action = ScaleDown -> <<[op |-> "scale_down", app_name |-> app_name, env |-> env]>>
      [] action = Restart -> <<[op |-> "restart", app_name |-> app_name, env |-> env]>>
      [] OTHER -> <<>>

ExecutorCalls(action, app_name, env) ==
    CASE action = Deploy -> <<[op |-> "deploy_app", app_name |-> app_name, env |-> env]>>
      [] action = Stop -> <<[op |-> "stop_app", app_name |-> app_name, env |-> env]>>
      [] action = ScaleUp -> <<[op |-> "scale_up", app_name |-> app_name, env |-> env]>>
      [] action = ScaleDown -> <<[op |-> "scale_down", app_name |-> app_name, env |-> env]>>
      [] action = Restart -> << [op |-> "stop_app", app_name |-> app_name, env |-> env],
                                [op |-> "deploy_app", app_name |-> app_name, env |-> env] >>
      [] OTHER -> <<>>

\* what the Executor does with one call: report success, report failure, or
\* raise
ExecutorOutcomes == {"success", "failed", "raise"}

\* the calls made before and including the first one that raises
CallsMade(calls, outcomes) ==
    LET raising == { i \in DOMAIN calls : outcomes[i] = "raise" }
        n == IF raising = {} THEN Len(calls)
             ELSE CHOOSE i \in raising : \A j \in raising : i <= j
    IN [ i \in 1..n |-> [ op |-> calls[i].op, app_name |-> calls[i].app_name,
                          env |-> calls[i].env, outcome |-> outcomes[i] ] ]

\* step 4 of a cycle: execute_action returns the outcome of its last Executor
\* call; an exception of the Executor is caught neither by execute_action nor
\* by run_rl_cycle and ends the run
CycleExecute ==
    /\ cyc.pc = "chosen"
    /\ LET calls == ExecutorCalls(cyc.action, cyc.app_name, cyc.env)
       IN \E outcomes \in [DOMAIN calls -> ExecutorOutcomes] :
             LET made == CallsMade(calls, outcomes)
                 raised == \E i \in DOMAIN made : made[i].outcome = "raise"
             IN /\ exec_calls' = exec_calls \o made
                /\ cyc' = [cyc EXCEPT
                              !.pc = IF raised THEN "crashed" ELSE "executed",
                              !.calls = made,
                              !.result = IF raised THEN "exception"
                                         ELSE IF calls = <<>> THEN "unknown_action"
                                         ELSE made[Len(made)].outcome]
    /\ UNCHANGED <<gateVars, rewardVars, policyVars, callVars>>

\* steps 5 to 7 of a cycle: get_state, compute_reward, update_rl_table
CycleLearn ==
    /\ cyc.pc = "executed"
    /\ Len(rl_log) < MaxUpdates
    /\ \E status \in TelemetryStatus, bucket \in TelemetryBuckets :
          LET next_state == extract_state(cyc.app_name, cyc.env, status, bucket)
              pre_state_dict == [status |-> "unknown", error_rate |-> 0]
              post_state_dict ==
                  [status |-> IF Contains(next_state, "failed") THEN "failed" ELSE "healthy",
                   error_rate |-> 0]
              reward == compute_reward(pre_state_dict, post_state_dict) \div 100
          IN /\ update_rl_table(cyc.state, cyc.action, reward, next_state,
                                get_valid_actions(cyc.app_spec))
             /\ cyc' = [cyc EXCEPT !.pc = "loop", !.cycle = @ + 1,
                                   !.total_reward = @ + reward]
    /\ UNCHANGED <<exec_calls, gateVars, rewardVars, callVars>>

\* after the loop: save_policy
FinishRun ==
    /\ cyc.pc = "loop"
    /\ cyc.cycle = cyc.cycles
    /\ save_policy
    /\ cyc' = [cyc EXCEPT !.pc = "finished"]
    /\ UNCHANGED <<exec_calls, gateVars, rewardVars, callVars>>

(***************************************************************************)
(* Direct calls of load_app_spec and get_valid_actions on any spec file.   *)
(* An optional key of a JSON object is <<>> when absent and <<v>> when     *)
(* present with value v.                                                   *)
(***************************************************************************)
Opt(values) == {<<>>} \cup { <<v>> : v \in values }

\* d[k] = v on a dict
Put(d, k, v) == [ x \in DOMAIN d \cup {k} |-> IF x = k THEN v ELSE d[x] ]

PutOpt(d, k, o) == IF o = <<>> THEN d ELSE Put(d, k, o[1])

LoadWorkerCounts == {0, 1, 2, 5, 10, 11}

\* the scaling blocks a spec file can carry
LoadScalings ==
    { PutOpt(PutOpt(PutOpt(EmptyDict, "enabled", e), "min_workers", lo),
             "max_workers", hi) :
          e \in Opt(BOOLEAN), lo \in Opt(LoadWorkerCounts), hi \in Opt(LoadWorkerCounts) }

LoadCustomActions ==
    { <<>>, <<Rollback>>, <<ScaleUp>>, <<InvalidAction>>, <<Deploy, InvalidAction>> }

\* the action sets and per-environment restrictions a spec file can declare
LoadDeclaredActions == { <<Deploy, Stop, Restart>> }

LoadEnvConstraints == { (Prod :> [forbidden_actions |-> <<Stop>>]) @@ (Stage :> EmptyDict) }

\* the spec documents a file can hold
LoadSpecs ==
    { PutOpt(PutOpt(PutOpt(PutOpt(PutOpt(PutOpt(EmptyDict, "name", n), "type", t),
                                  "scaling", s),
                           "custom_actions", c),
                    "actions", a),
             "environment_constraints", ec) :
          n \in Opt({Web}), t \in Opt({<<"backend">>}), s \in Opt(LoadScalings),
          c \in Opt(LoadCustomActions), a \in Opt(LoadDeclaredActions),
          ec \in Opt(LoadEnvConstraints) }

NoCall == [ fn |-> "none", kind |-> "none", message |-> <<>>, value |-> <<>> ]

LoadIdle ==
    /\ ld_in = [app_name |-> Web, file |-> NoFile]
    /\ ld_out = NoCall

LoadInit ==
    /\ ld_in \in [ app_name : {Web}, file : {NoFile} \cup { File(spec) : spec \in LoadSpecs } ]
    /\ ld_out = NoCall

\* controller.load_app_spec(app_name)
LoadAppSpec ==
    /\ ld_out = NoCall
    /\ LET r == load_app_spec(ld_in.app_name, ld_in.file)
       IN ld_out' = [ fn |-> "load_app_spec", kind |-> r.kind, message |-> r.message,
                      value |-> r.spec ]
    /\ UNCHANGED <<ld_in, key_in, key_out, det_in, det_out, otherCallVars>>
    /\ UNCHANGED <<gateVars, rewardVars, policyVars, cycleVars>>

\* the actions and environments the schema check is asked about
SchemaCheckActions == {Deploy, Stop, Restart, ScaleUp, ScaleDown, Rollback, InvalidAction}

SchemaCheckEnvs == {Prod, Stage}

\* safety_enforcer._validate_against_schema(action, app_name, env, spec) on the
\* document of the file
ValidateAgainstSchema ==
    /\ ld_out = NoCall
    /\ ld_in.file.exists
    /\ \E action \in SchemaCheckActions, env \in SchemaCheckEnvs :
          ld_out' = [ fn |-> "_validate_against_schema", kind |-> "list", message |-> <<>>,
                      value |-> [ action |-> action, env |-> env,
                                  violations |-> _validate_against_schema(
                                      action, ld_in.app_name, env, ld_in.file.spec) ] ]
    /\ UNCHANGED <<ld_in, key_in, key_out, det_in, det_out, otherCallVars>>
    /\ UNCHANGED <<gateVars, rewardVars, policyVars, cycleVars>>

\* get_valid_actions(spec) on the document of the file
GetValidActions ==
    /\ ld_out = NoCall
    /\ ld_in.file.exists
    /\ ld_out' = [ fn |-> "get_valid_actions", kind |-> "list", message |-> <<>>,
                   value |-> get_valid_actions(ld_in.file.spec) ]
    /\ UNCHANGED <<ld_in, key_in, key_out, det_in, det_out, otherCallVars>>
    /\ UNCHANGED <<gateVars, rewardVars, policyVars, cycleVars>>

(***************************************************************************)
(* Direct calls of extract_state for two (app, env, status, bucket) reads. *)
(***************************************************************************)
KeyApps == { <<"a">>, <<"a", "_", "b">>, Web, SampleBackend }

KeyEnvs == { <<"c">>, <<"b", "_", "c">>, Prod, Stage }

KeyStatuses == {"healthy", "degraded", "failed"}

KeyBuckets == {0, 5}

KeyReads == [ app_name : KeyApps, env : KeyEnvs, status : KeyStatuses, bucket : KeyBuckets ]

KeyIdle ==
    /\ key_in = << [app_name |-> Web, env |-> Prod, status |-> "healthy", bucket |-> 0],
                   [app_name |-> Web, env |-> Prod, status |-> "healthy", bucket |-> 0] >>
    /\ key_out = <<>>

KeyInit ==
    /\ key_in \in KeyReads \X KeyReads
    /\ key_out = <<>>

\* extract_state(app_name, env) for each of the two reads
ExtractState ==
    /\ key_out = <<>>
    /\ key_out' = [ i \in {1, 2} |-> extract_state(key_in[i].app_name, key_in[i].env,
                                                    key_in[i].status, key_in[i].bucket) ]
    /\ UNCHANGED <<ld_in, ld_out, key_in, det_in, det_out, otherCallVars>>
    /\ UNCHANGED <<gateVars, rewardVars, policyVars, cycleVars>>

(***************************************************************************)
(* Dynamic state detector: rl/dynamic_state_detector.py.  A provider       *)
(* yields None (<<>>) or a dict (<<d>>); fractions are in hundredths; the  *)
(* value of avg_latency is <<>> for None and <<ms>> for a number.          *)
(***************************************************************************)
metric_sources == <<"logs", "process", "http_health", "docker">>

\* dict.update
Update(d, e) == [ x \in DOMAIN d \cup DOMAIN e |-> IF x \in DOMAIN e THEN e[x] ELSE d[x] ]

\* _intelligent_fallback
_intelligent_fallback(app_name, env) ==
    IF env = Prod
    THEN [ status |-> "healthy", error_rate |-> 1, cpu_usage |-> 60, memory_usage |-> 70 ]
    ELSE [ status |-> "degraded", error_rate |-> 5, cpu_usage |-> 40, memory_usage |-> 50 ]

\* _normalize_state; max(0.0, None) raises TypeError
_normalize_state_always_derives(state) ==
    LET latency == Get(state, "avg_latency", <<100>>)
        error_rate == Max(0, Min(100, Get(state, "error_rate", 0)))
        cpu_usage == Max(0, Min(100, Get(state, "cpu_usage", 0)))
        memory_usage == Max(0, Min(100, Get(state, "memory_usage", 0)))
    IN IF latency = <<>>
       THEN [ kind |-> "TypeError", state |-> EmptyDict ]
       ELSE [ kind |-> "value",
              state |-> [ status |-> IF error_rate > 10 THEN "failed"
                                     ELSE IF cpu_usage > 90 \/ memory_usage > 95
                                          THEN "degraded"
                                     ELSE "healthy",
                          error_rate |-> error_rate,
                          cpu_usage |-> cpu_usage,
                          memory_usage |-> memory_usage,
                          avg_latency |-> Max(0, latency[1]),
                          workers |-> Max(1, Get(state, "workers", 1)),
                          uptime |-> Max(0, Get(state, "uptime", 0)) ] ]

_normalize_state(state) ==
    LET latency == Get(state, "avg_latency", <<100>>)
        status == Get(state, "status", "unknown")
        error_rate == Max(0, Min(100, Get(state, "error_rate", 0)))
        cpu_usage == Max(0, Min(100, Get(state, "cpu_usage", 0)))
        memory_usage == Max(0, Min(100, Get(state, "memory_usage", 0)))
    IN IF latency = <<>>
       THEN [ kind |-> "TypeError", state |-> EmptyDict ]
       ELSE [ kind |-> "value",
              state |-> [ status |-> IF status # "unknown" THEN status
                                     ELSE IF error_rate > 10 THEN "failed"
                                     ELSE IF cpu_usage > 90 \/ memory_usage > 95
                                          THEN "degraded"
                                     ELSE "healthy",
                          error_rate |-> error_rate,
                          cpu_usage |-> cpu_usage,
                          memory_usage |-> memory_usage,
                          avg_latency |-> Max(0, latency[1]),
                          workers |-> Max(1, Get(state, "workers", 1)),
                          uptime |-> Max(0, Get(state, "uptime", 0)) ] ]

\* the loop of extract_real_state over metric_sources: every provider that
\* yields a non-empty dict updates the state
RECURSIVE MergeSources(_, _, _)
MergeSources(state, yields, i) ==
    IF i > Len(metric_sources) THEN state
    ELSE LET y == yields[metric_sources[i]]
         IN MergeSources(IF y # <<>> /\ DOMAIN y[1] # {} THEN Update(state, y[1]) ELSE state,
                         yields, i + 1)

\* the state dict before normalisation
MergedState(app_name, env, yields) ==
    LET state == MergeSources(EmptyDict, yields, 1)
    IN IF DOMAIN state = {} THEN _intelligent_fallback(app_name, env) ELSE state

\* extract_real_state
extract_real_state(app_name, env, yields) ==
    _normalize_state(MergedState(app_name, env, yields))

\* what _extract_from_logs can yield
LogsYields ==
    { <<>>,
      << [status |-> "healthy", error_rate |-> 0, avg_latency |-> <<120>>] >>,
      << [status |-> "failed", error_rate |-> 8, avg_latency |-> <<>>] >>,
      << [status |-> "failed", error_rate |-> 10, avg_latency |-> <<300>>] >>,
      << [status |-> "failed", error_rate |-> 20, avg_latency |-> <<300>>] >> }

\* what _extract_from_process can yield
ProcessYields ==
    { <<>>,
      << [cpu_usage |-> 85, memory_usage |-> 40, status |-> "degraded", workers |-> 1] >>,
      << [cpu_usage |-> 10, memory_usage |-> 20, status |-> "healthy", workers |-> 1] >>,
      << [cpu_usage |-> 95, memory_usage |-> 40, status |-> "degraded", workers |-> 1] >>,
      << [cpu_usage |-> 10, memory_usage |-> 96, status |-> "degraded", workers |-> 1] >>,
      << [cpu_usage |-> 90, memory_usage |-> 95, status |-> "degraded", workers |-> 1] >> }

\* what _extract_from_health_endpoint can yield
HealthYields ==
    { <<>>,
      << [status |-> "healthy", avg_latency |-> <<35>>, uptime |-> 4000] >>,
      << [status |-> "unknown", avg_latency |-> <<900>>, uptime |-> 0] >> }

\* what _extract_from_docker can yield
DockerYields ==
    { <<>>,
      << [status |-> "running", cpu_usage |-> 30, memory_usage |-> 97, workers |-> 2] >>,
      << [status |-> "exited", cpu_usage |-> 0, memory_usage |-> 0, workers |-> 1] >> }

DetPairs == { <<Web, Prod>>, <<Web, Stage>> }

NoState == [ kind |-> "none", merged |-> EmptyDict, state |-> EmptyDict ]

DetIdle ==
    /\ det_in = [ app_name |-> Web, env |-> Prod,
                  yields |-> [ logs |-> <<>>, process |-> <<>>, http_health |-> <<>>,
                               docker |-> <<>> ] ]
    /\ det_out = NoState

DetInit ==
    /\ det_in \in { [ app_name |-> pair[1], env |-> pair[2], yields |-> y ] :
                       pair \in DetPairs,
                       y \in [ logs : LogsYields, process : ProcessYields,
                               http_health : HealthYields, docker : DockerYields ] }
    /\ det_out = NoState

\* get_dynamic_state(app_name, env)
ExtractRealState ==
    /\ det_out = NoState
    /\ LET r == extract_real_state(det_in.app_name, det_in.env, det_in.yields)
       IN det_out' = [ kind |-> r.kind,
                       merged |-> MergedState(det_in.app_name, det_in.env, det_in.yields),
                       state |-> r.state ]
    /\ UNCHANGED <<ld_in, ld_out, key_in, key_out, det_in, otherCallVars>>
    /\ UNCHANGED <<gateVars, rewardVars, policyVars, cycleVars>>

loadKeyDetVars == <<ld_in, ld_out, key_in, key_out, det_in, det_out>>

(***************************************************************************)
(* Direct calls of get_safe_fallback_action (rl/safety_constraints.py).    *)
(***************************************************************************)
\* get_safe_fallback_action
get_safe_fallback_action_swapped(original_action, app_name, env, current_state) ==
    IF original_action = ScaleUp THEN Restart
    ELSE IF original_action = Stop /\ env = Prod THEN ScaleDown
    ELSE IF Get(current_state, "status", "None") # "healthy" THEN Deploy
    ELSE Restart

get_safe_fallback_action(original_action, app_name, env, current_state) ==
    IF original_action = ScaleUp THEN Restart
    ELSE IF original_action = Stop /\ env = Prod THEN ScaleDown
    ELSE IF Get(current_state, "status", "None") # "healthy" THEN Restart
    ELSE Deploy

FallbackActions == {Deploy, Stop, Restart, ScaleUp, ScaleDown, Rollback}

FallbackApps == {Web, SampleBackend}

FallbackEnvs == {Prod, Stage, <<"dev">>}

\* current_state dicts: every status, no status key, and other keys present
FallbackStates ==
    { [status |-> st] : st \in {"healthy", "degraded", "failed", "unknown"} }
    \cup { EmptyDict, [status |-> "healthy", workers |-> 3, uptime |-> 0] }

NoFallback == <<>>

\* the spec files of the apps whose blocked actions get a fallback
FallbackSpecKinds == {"minimal", "default", "no_name"}

FallbackSpecFile(app_name, kind) ==
    IF kind = "default" THEN File(create_default_spec(app_name))
    ELSE SpecFileFor(app_name, kind)

FallbackIdle ==
    /\ fb_in = [ original_action |-> Restart, app_name |-> Web, env |-> Prod,
                 current_state |-> EmptyDict, file |-> NoFile ]
    /\ fb_out = NoFallback

FallbackInit ==
    /\ fb_in \in { [ original_action |-> a, app_name |-> n, env |-> e, current_state |-> st,
                        file |-> FallbackSpecFile(n, k) ] :
                      a \in FallbackActions, n \in FallbackApps, e \in FallbackEnvs,
                      st \in FallbackStates, k \in FallbackSpecKinds }
    /\ fb_out = NoFallback

\* safety_enforcer.get_safe_fallback_action(...), called once or again
GetSafeFallback ==
    /\ fb_out' = << get_safe_fallback_action(fb_in.original_action, fb_in.app_name,
                                             fb_in.env, fb_in.current_state) >>
                 \o fb_out
    /\ Len(fb_out) < 2
    /\ UNCHANGED <<fb_in, upd, loadKeyDetVars, orchVars>>
    /\ UNCHANGED <<gateVars, rewardVars, policyVars, cycleVars>>

(***************************************************************************)
(* Two decision loops calling update_rl_table on one controller.  The      *)
(* method holds no lock, so a call is three steps another call can         *)
(* interleave with: the reads of q_table (lines 147-149), the write of the *)
(* entry (line 152), the append to the event log (lines 154-164), which    *)
(* raises OSError when the file cannot be opened or written.               *)
(***************************************************************************)
Loops == {1, 2}

UpdTables ==
    { <<>>, << [key |-> << <<"s">>, Restart >>, value |-> 2 * QScale] >> }

UpdArgs ==
    [ state : { <<"s">> }, action : {Restart, Deploy}, reward : {12, -20},
      next_state : { <<"s">>, <<"t">> }, valid_next_actions : { <<Restart, Deploy>> } ]

NoLocals ==
    [ pc |-> "idle", args |-> <<>>, table_before |-> <<>>, serial |-> TRUE,
      current_q |-> 0, max_next_q |-> 0, new_q |-> 0 ]

UpdIdle == upd = [ table0 |-> <<>>, loops |-> [ i \in Loops |-> NoLocals ] ]

\* a controller whose table was loaded, and two loops about to update it
UpdInit ==
    /\ q_table \in UpdTables
    /\ upd = [ table0 |-> q_table, loops |-> [ i \in Loops |-> NoLocals ] ]
    /\ policy_file = [exists |-> FALSE, q_table |-> <<>>]
    /\ rl_log = <<>>
    /\ last_op = "init"
    /\ last_update = NoUpdate
    /\ saved_table = <<>>

OtherLoop(i) == CHOOSE j \in Loops : j # i

\* lines 147-151: current_q, max_next_q and new_q are computed from the table
\* as it is now
UpdRead(i) ==
    /\ upd.loops[i].pc = "idle"
    /\ \E args \in UpdArgs :
          LET current_q == DictGet(q_table, <<args.state, args.action>>, 0)
              max_next_q == MaxNextQ(q_table, args.next_state, args.valid_next_actions)
          IN upd' = [upd EXCEPT !.loops[i] =
                        [ pc |-> "read", args |-> args, table_before |-> q_table,
                          serial |-> upd.loops[OtherLoop(i)].pc \in {"idle", "done", "OSError"},
                          current_q |-> current_q, max_next_q |-> max_next_q,
                          new_q |-> NewQ(current_q, args.reward, max_next_q) ]]
    /\ UNCHANGED <<policyVars, fb_in, fb_out, loadKeyDetVars, orchVars>>
    /\ UNCHANGED <<gateVars, rewardVars, cycleVars>>

\* line 152: self.q_table[(state, action)] = new_q
UpdWrite(i) ==
    /\ upd.loops[i].pc = "read"
    /\ q_table' = DictSet(q_table, <<upd.loops[i].args.state, upd.loops[i].args.action>>,
                          upd.loops[i].new_q)
    /\ upd' = [upd EXCEPT !.loops[i].pc = "written",
                          !.loops[i].serial =
                              @ /\ upd.loops[OtherLoop(i)].pc \in {"idle", "done", "OSError"}]
    /\ UNCHANGED <<policy_file, rl_log, last_op, last_update, saved_table>>
    /\ UNCHANGED <<fb_in, fb_out, loadKeyDetVars, orchVars>>
    /\ UNCHANGED <<gateVars, rewardVars, cycleVars>>

\* lines 154-166: the row is appended and new_q returned, or open/writerow
\* raises
UpdLog(i) ==
    /\ upd.loops[i].pc = "written"
    /\ \E written \in BOOLEAN :
          IF written
          THEN /\ rl_log' = AppendRow(rl_log, LogRow(upd.loops[i].args.state,
                                                     upd.loops[i].args.action,
                                                     upd.loops[i].args.reward,
                                                     upd.loops[i].new_q))
               /\ upd' = [upd EXCEPT !.loops[i].pc = "done"]
          ELSE /\ UNCHANGED rl_log
               /\ upd' = [upd EXCEPT !.loops[i].pc = "OSError"]
    /\ UNCHANGED <<q_table, policy_file, last_op, last_update, saved_table>>
    /\ UNCHANGED <<fb_in, fb_out, loadKeyDetVars, orchVars>>
    /\ UNCHANGED <<gateVars, rewardVars, cycleVars>>

UpdStep == \E i \in Loops : UpdRead(i) \/ UpdWrite(i) \/ UpdLog(i)

(***************************************************************************)
(* Simulated orchestrator (shivam_orchestrator.py) behind OrchestratorAPI  *)
(* (rl/orchestrator_wrapper.py).  deployed_apps and app_status are dicts   *)
(* keyed by f"{app_name}_{env}"; a call returns the new dicts and the      *)
(* 'status' of its result.                                                 *)
(***************************************************************************)
\* f"{app_name}_{env}"
app_key(app_name, env) == app_name \o <<"_">> \o env

\* ShivamOrchestrator.deploy
deploy(apps, statuses, app_name, env) ==
    LET key == app_key(app_name, env)
    IN [ deployed_apps |-> (key :> [ deployment_id |-> [key |-> key, time |-> now],
                                     status |-> "running", workers |-> 1,
                                     deployed_at |-> now ]) @@ apps,
         app_status |-> (key :> "healthy") @@ statuses,
         status |-> "success" ]

\* ShivamOrchestrator.stop
stop(apps, statuses, app_name, env) ==
    LET key == app_key(app_name, env)
    IN IF key \in DOMAIN apps
       THEN [ deployed_apps |-> [apps EXCEPT ![key].status = "stopped"],
              app_status |-> (key :> "stopped") @@ statuses,
              status |-> "success" ]
       ELSE [ deployed_apps |-> apps, app_status |-> statuses, status |-> "failed" ]

\* ShivamOrchestrator.scale
scale(apps, statuses, app_name, env, workers) ==
    LET key == app_key(app_name, env)
    IN IF key \in DOMAIN apps
       THEN [ deployed_apps |-> [apps EXCEPT ![key].workers = Max(Min(workers, 3), 1)],
              app_status |-> statuses,
              status |-> "success" ]
       ELSE [ deployed_apps |-> apps, app_status |-> statuses, status |-> "failed" ]

\* OrchestratorAPI.scale(app_name, env, direction, workers=None) with the
\* simulated orchestrator imported; workers is <<>> for None
api_max_workers == 3

api_scale(apps, statuses, app_name, env, direction, workers) ==
    LET requested == IF workers # <<>> THEN workers[1]
                     ELSE IF direction = "up" THEN 2 ELSE 1
    IN scale(apps, statuses, app_name, env, Max(Min(requested, api_max_workers), 1))

\* the (app, env) pairs the orchestrator is called for
OrchPairs ==
    { <<Web, Prod>>, <<Web, Stage>>, <<SampleBackend, Prod>>,
      << <<"sample">>, <<"backend", "_", "prod">> >> }

\* the worker counts a scale call can ask for
OrchWorkers == 0..4

NoOrchCall ==
    [ op |-> "none", app_name |-> <<>>, env |-> <<>>, workers |-> <<>>, status |-> "none",
      apps_before |-> EmptyDict, status_before |-> EmptyDict ]

OrchIdle ==
    /\ deployed_apps = EmptyDict
    /\ app_status = EmptyDict
    /\ orch_out = NoOrchCall
    /\ deployed_pairs = {}

\* a call through the orchestrator's public functions took place
Called(op, app_name, env, workers, r) ==
    /\ deployed_apps' = r.deployed_apps
    /\ app_status' = r.app_status
    /\ orch_out' = [ op |-> op, app_name |-> app_name, env |-> env, workers |-> workers,
                     status |-> r.status,
                     apps_before |-> deployed_apps, status_before |-> app_status ]
    /\ deployed_pairs' = IF op = "deploy" THEN deployed_pairs \cup { <<app_name, env>> }
                         ELSE deployed_pairs

\* deploy(app_name, env)
OrchDeploy ==
    /\ \E pair \in OrchPairs :
          Called("deploy", pair[1], pair[2], <<>>,
                 deploy(deployed_apps, app_status, pair[1], pair[2]))
    /\ UNCHANGED <<fb_in, fb_out, upd, loadKeyDetVars>>
    /\ UNCHANGED <<gateVars, rewardVars, policyVars, cycleVars>>

\* stop(app_name, env)
OrchStop ==
    /\ \E pair \in OrchPairs :
          Called("stop", pair[1], pair[2], <<>>,
                 stop(deployed_apps, app_status, pair[1], pair[2]))
    /\ UNCHANGED <<fb_in, fb_out, upd, loadKeyDetVars>>
    /\ UNCHANGED <<gateVars, rewardVars, policyVars, cycleVars>>

\* scale(app_name, env, workers)
OrchScale ==
    /\ \E pair \in OrchPairs, workers \in OrchWorkers :
          Called("scale", pair[1], pair[2], <<workers>>,
                 scale(deployed_apps, app_status, pair[1], pair[2], workers))
    /\ UNCHANGED <<fb_in, fb_out, upd, loadKeyDetVars>>
    /\ UNCHANGED <<gateVars, rewardVars, policyVars, cycleVars>>

\* execute_action('scale_up' / 'scale_down', app_name, env, orchestrator_api)
ExecuteScale ==
    /\ \E pair \in OrchPairs, action \in {ScaleUp, ScaleDown} :
          Called(IF action = ScaleUp THEN "execute_scale_up" ELSE "execute_scale_down",
                 pair[1], pair[2], <<>>,
                 api_scale(deployed_apps, app_status, pair[1], pair[2],
                           IF action = ScaleUp THEN "up" ELSE "down", <<>>))
    /\ UNCHANGED <<fb_in, fb_out, upd, loadKeyDetVars>>
    /\ UNCHANGED <<gateVars, rewardVars, policyVars, cycleVars>>

CallIdle == LoadIdle /\ KeyIdle /\ DetIdle /\ FallbackIdle /\ UpdIdle /\ OrchIdle

(***************************************************************************)
(* Direct use of the Policy Store.                                         *)
(***************************************************************************)
PolicyStates == { <<"s">>, extract_state(Web, Stage, "healthy", 0) }

PolicyActions == {Restart, Deploy, ScaleUp}

PolicyRewards == {12, -20}

PolicyNextActions == { <<>>, <<Restart, ScaleUp>> }

\* the action vocabulary and state keys, some of which end like the start of
\* an action name
SnapshotActions == {Deploy, Stop, Restart, ScaleUp, ScaleDown, Rollback}

SnapshotStates ==
    { <<"s">>, <<"s", "_", "scale">>, <<"s", "_", "deploy">>,
      extract_state(Web, Stage, "healthy", 0) }

\* the table after update_rl_table wrote two different (state, action) pairs,
\* the first with reward 10 and the second with reward -10
SnapshotTables ==
    { t \in { << [key |-> k1, value |-> NewQ(0, 10, 0)],
                 [key |-> k2, value |-> NewQ(0, -10, 0)] >> :
                  k1 \in SnapshotStates \X SnapshotActions,
                  k2 \in SnapshotStates \X SnapshotActions } :
          t[1].key # t[2].key }

SnapshotInit ==
    /\ q_table \in SnapshotTables
    /\ policy_file = [exists |-> FALSE, q_table |-> <<>>]
    /\ rl_log = <<>>
    /\ last_op = "init"
    /\ last_update = NoUpdate
    /\ saved_table = <<>>

\* Q-tables whose values are within [-100, 100]: the empty table of __init__
\* and tables with values at 0 and at both ends of the interval
BoundValues == { -100 * QScale, 0, 100 * QScale }

BoundActions == <<Restart, Deploy>>

BoundTables ==
    { LET items == SelectSeq([ i \in DOMAIN BoundActions |->
                                  [key |-> << <<"s">>, BoundActions[i] >>, value |-> v[i],
                                   present |-> w[i]] ],
                             LAMBDA item : item.present)
      IN [ i \in DOMAIN items |-> [key |-> items[i].key, value |-> items[i].value] ] :
          v \in [ DOMAIN BoundActions -> BoundValues ],
          w \in [ DOMAIN BoundActions -> BOOLEAN ] }

\* rewards within [-10, 10]
BoundRewards == {-10, 0, 10}

BoundInit ==
    /\ q_table \in BoundTables
    /\ policy_file = [exists |-> FALSE, q_table |-> <<>>]
    /\ rl_log = <<>>
    /\ last_op = "init"
    /\ last_update = NoUpdate
    /\ saved_table = <<>>

BoundUpdate ==
    /\ Len(rl_log) < MaxUpdates
    /\ \E i \in DOMAIN BoundActions, reward \in BoundRewards,
          next_state \in { <<"s">>, <<"t">> },
          valid_next_actions \in { <<>>, BoundActions } :
          update_rl_table(<<"s">>, BoundActions[i], reward, next_state, valid_next_actions)
    /\ UNCHANGED <<gateVars, rewardVars, cycleVars, callVars>>

UpdateRlTable ==
    /\ Len(rl_log) < MaxUpdates
    /\ \E state \in PolicyStates, action \in PolicyActions, reward \in PolicyRewards,
          next_state \in PolicyStates, valid_next_actions \in PolicyNextActions :
          update_rl_table(state, action, reward, next_state, valid_next_actions)
    /\ UNCHANGED <<gateVars, rewardVars, cycleVars, callVars>>

SavePolicy ==
    /\ save_policy
    /\ UNCHANGED <<gateVars, rewardVars, cycleVars, callVars>>

LoadPolicy ==
    /\ load_policy
    /\ UNCHANGED <<gateVars, rewardVars, cycleVars, callVars>>

(***************************************************************************)
(* Specifications.                                                         *)
(***************************************************************************)
\* the Safety Gate called with any action, spec and state
InitGate == GateInit /\ RewardIdle /\ PolicyInit /\ CycleIdle /\ CallIdle

NextGate == GateCall

SpecGate == InitGate /\ [][NextGate]_vars

\* the Safety Gate called repeatedly while the clock moves
InitRate == RateInit /\ RewardIdle /\ PolicyInit /\ CycleIdle /\ CallIdle

NextRate == RateCall \/ Tick

SpecRate == InitRate /\ [][NextRate]_vars

\* the Safety Gate called for attempts that pass or fail the schema check
\* while the clock moves
InitWindow == RateInit /\ RewardIdle /\ PolicyInit /\ CycleIdle /\ CallIdle

NextWindow == WindowCall \/ Tick

SpecWindow == InitWindow /\ [][NextWindow]_vars

\* one calculate_reward call on any transition
InitReward ==
    GateInit /\ schema = default_schema /\ RewardInit /\ PolicyInit /\ CycleIdle /\ CallIdle

NextReward == CalculateReward

SpecReward == InitReward /\ [][NextReward]_vars

\* a controller whose table is updated, saved and loaded in any order
InitPolicy ==
    GateInit /\ schema = default_schema /\ RewardIdle /\ PolicyInit /\ CycleIdle /\ CallIdle

NextPolicy == UpdateRlTable \/ SavePolicy \/ LoadPolicy

SpecPolicy == InitPolicy /\ [][NextPolicy]_vars

\* save_policy on a table of two entries
InitSnapshot ==
    GateInit /\ schema = default_schema /\ RewardIdle /\ SnapshotInit /\ CycleIdle /\ CallIdle

NextSnapshot == SavePolicy

SpecSnapshot == InitSnapshot /\ [][NextSnapshot]_vars

\* updates with rewards in [-10, 10] of any table within [-100, 100]
InitBound ==
    GateInit /\ schema = default_schema /\ RewardIdle /\ BoundInit /\ CycleIdle /\ CallIdle

NextBound == BoundUpdate

SpecBound == InitBound /\ [][NextBound]_vars

\* run_rl_cycle
InitCycle ==
    GateInit /\ schema = default_schema /\ RewardIdle /\ PolicyInit /\ CycleIdle /\ CallIdle

NextCycle == StartRun \/ CycleChoose \/ CycleExecute \/ CycleLearn \/ FinishRun

SpecCycle == InitCycle /\ [][NextCycle]_vars

\* load_app_spec and get_valid_actions on any spec file
InitLoad ==
    /\ GateInit /\ schema = default_schema /\ RewardIdle /\ PolicyInit /\ CycleIdle
    /\ LoadInit /\ KeyIdle /\ DetIdle /\ FallbackIdle /\ UpdIdle /\ OrchIdle

NextLoad == LoadAppSpec \/ GetValidActions \/ ValidateAgainstSchema

SpecLoad == InitLoad /\ [][NextLoad]_vars

\* extract_state on two reads
InitKey ==
    /\ GateInit /\ schema = default_schema /\ RewardIdle /\ PolicyInit /\ CycleIdle
    /\ LoadIdle /\ KeyInit /\ DetIdle /\ FallbackIdle /\ UpdIdle /\ OrchIdle

NextKey == ExtractState

SpecKey == InitKey /\ [][NextKey]_vars

\* extract_real_state on any combination of provider results
InitDetector ==
    /\ GateInit /\ schema = default_schema /\ RewardIdle /\ PolicyInit /\ CycleIdle
    /\ LoadIdle /\ KeyIdle /\ DetInit /\ FallbackIdle /\ UpdIdle /\ OrchIdle

NextDetector == ExtractRealState

SpecDetector == InitDetector /\ [][NextDetector]_vars

\* get_safe_fallback_action on any blocked attempt
InitFallback ==
    /\ GateInit /\ schema = default_schema /\ RewardIdle /\ PolicyInit /\ CycleIdle
    /\ LoadIdle /\ KeyIdle /\ DetIdle /\ FallbackInit /\ UpdIdle /\ OrchIdle

NextFallback == GetSafeFallback

SpecFallback == InitFallback /\ [][NextFallback]_vars

\* two loops updating the table of one controller
InitUpdates ==
    /\ GateInit /\ schema = default_schema /\ RewardIdle /\ CycleIdle
    /\ LoadIdle /\ KeyIdle /\ DetIdle /\ FallbackIdle /\ UpdInit /\ OrchIdle

NextUpdates == UpdStep

SpecUpdates == InitUpdates /\ [][NextUpdates]_vars

\* the simulated orchestrator called in any order, directly and through
\* execute_action
InitOrchestrator ==
    /\ GateInit /\ schema = default_schema /\ RewardIdle /\ PolicyInit /\ CycleIdle /\ CallIdle

NextOrchestrator == OrchDeploy \/ OrchStop \/ OrchScale \/ ExecuteScale

SpecOrchestrator == InitOrchestrator /\ [][NextOrchestrator]_vars

Init == InitCycle

Next == NextCycle

Spec == SpecCycle

(***************************************************************************)
(* Properties of the Safety Gate.                                          *)
(***************************************************************************)
Last(list) == list[Len(list)]

Blocked(e) == e.violations # <<>>

Approved(e) == e.violations = <<>>

\* C2: under the default safety policy every attempt to stop in prod is
\* BLOCKED (non-empty violation list, enforce_safety raises), whatever the
\* spec and the current state
C2_StopInProdBlocked ==
    schema = default_schema =>
        \A i \in DOMAIN attempt_log :
            (attempt_log[i].action = Stop /\ attempt_log[i].env = Prod)
                => /\ Blocked(attempt_log[i])
                   /\ enforce_safety(attempt_log[i].violations) = "SafetyViolationError"

\* a stop in prod that only the production rule blocked
C2_Witness ==
    /\ schema = default_schema
    /\ \E i \in DOMAIN attempt_log :
          /\ attempt_log[i].action = Stop /\ attempt_log[i].env = Prod
          /\ attempt_log[i].violations = <<"forbidden in production environment">>

\* C3: a scale_up attempted with current workers >= min(per-app cap of the
\* policy, scaling.max_workers of the spec) is BLOCKED, for every spec,
\* environment, uptime and history
C3_ScaleUpAtCeilingBlocked ==
    \A i \in DOMAIN attempt_log :
        ( /\ attempt_log[i].action = ScaleUp
          /\ attempt_log[i].workers >=
                 Min(schema.constraints.max_workers_per_app, attempt_log[i].max_workers) )
            => Blocked(attempt_log[i])

\* a scale_up at the ceiling that only the worker rule blocked
C3_Witness ==
    \E i \in DOMAIN attempt_log :
        /\ attempt_log[i].action = ScaleUp
        /\ attempt_log[i].workers =
               Min(schema.constraints.max_workers_per_app, attempt_log[i].max_workers)
        /\ attempt_log[i].violations = <<"Worker limit exceeded">>

\* approved attempts of the pair of attempt j in the 60 seconds that end with j
ApprovedInWindow(j) ==
    { i \in 1..j :
        /\ attempt_log[i].app_name = attempt_log[j].app_name
        /\ attempt_log[i].env = attempt_log[j].env
        /\ Approved(attempt_log[i])
        /\ attempt_log[i].timestamp > attempt_log[j].timestamp - 60 }

\* C4: the approved attempts of one (app, env) pair inside one 60-second
\* window never exceed max_actions_per_minute, also while the ledger evicts
C4_ApprovedPerWindowBounded ==
    \A j \in DOMAIN attempt_log :
        Approved(attempt_log[j]) =>
            Cardinality(ApprovedInWindow(j)) <= schema.constraints.max_actions_per_minute

\* attempts i0..j are consecutive attempts of one action by one pair, all inside
\* the 60 seconds that end with j, every other rule passing, and the pair made
\* no earlier attempt inside that window
IsRun(i0, j) ==
    /\ i0 <= j
    /\ \A k \in i0..j :
          /\ attempt_log[k].app_name = attempt_log[j].app_name
          /\ attempt_log[k].env = attempt_log[j].env
          /\ attempt_log[k].action = attempt_log[j].action
          /\ attempt_log[k].others_pass
          /\ attempt_log[k].timestamp > attempt_log[j].timestamp - 60
    /\ \A k \in 1..(i0 - 1) :
          ~ ( /\ attempt_log[k].app_name = attempt_log[j].app_name
              /\ attempt_log[k].env = attempt_log[j].env
              /\ attempt_log[k].timestamp > attempt_log[j].timestamp - 60 )

\* C5: with ceiling N and every other rule passing, the 1st..Nth consecutive
\* attempts of a pair inside one 60-second window are APPROVED and the
\* (N+1)th and later ones are BLOCKED by the rate rule
C5_RateCeilingRun ==
    \A i0, j \in DOMAIN attempt_log :
        IsRun(i0, j) =>
            IF j - i0 + 1 <= schema.constraints.max_actions_per_minute
            THEN Approved(attempt_log[j])
            ELSE attempt_log[j].violations = <<"Action frequency limit exceeded">>

\* a run that reached attempt N+1, which was blocked
C5_Witness ==
    \E i0, j \in DOMAIN attempt_log :
        /\ IsRun(i0, j)
        /\ j - i0 + 1 = schema.constraints.max_actions_per_minute + 1
        /\ \A k \in i0..(j - 1) : Approved(attempt_log[k])
        /\ Blocked(attempt_log[j])

\* C6: every enforce_constraints call, approved or blocked by whichever rule,
\* appends exactly one entry for the attempt to action_history
C6_EveryAttemptAppended ==
    [][ Len(attempt_log') = Len(attempt_log) + 1 =>
          /\ action_history' # <<>>
          /\ Last(action_history').action = Last(attempt_log').action
          /\ Last(action_history').app_name = Last(attempt_log').app_name
          /\ Last(action_history').env = Last(attempt_log').env
          /\ Last(action_history').timestamp = Last(attempt_log').timestamp
          /\ Last(action_history').violations = Last(attempt_log').violations
          /\ Len(action_history') \in {Len(action_history) + 1, HistoryCap} ]_vars

(***************************************************************************)
(* Properties of the Decision Controller, the reward model and the Policy  *)
(* Store.                                                                  *)
(***************************************************************************)
\* C1: the action a cycle hands to the Executor was approved by the Safety
\* Gate for this pair: an enforce_constraints call for it returned no
\* violations
C1_ExecutedActionApproved ==
    cyc.pc = "executed" =>
        \E i \in DOMAIN attempt_log :
            /\ attempt_log[i].action = cyc.action
            /\ attempt_log[i].app_name = cyc.app_name
            /\ attempt_log[i].env = cyc.env
            /\ Approved(attempt_log[i])

\* C7: calculate_reward returns a value, and the value lies in [-10, 10]
C7_RewardInRange ==
    rw_result # NoResult =>
        /\ rw_result.kind = "value"
        /\ -10 * rw_result.den <= rw_result.num
        /\ rw_result.num <= 10 * rw_result.den

\* the value a table holds for a key, 0 for a key never written
QRead(table, key) ==
    IF \E i \in DOMAIN table : table[i].key = key
    THEN table[CHOOSE i \in DOMAIN table : table[i].key = key].value
    ELSE 0

\* the largest Q-value of state over the actions, 0 over no actions
QMax(table, state, actions) ==
    IF actions = <<>> THEN 0
    ELSE LET best == CHOOSE i \in DOMAIN actions : \A j \in DOMAIN actions :
                         QRead(table, <<state, actions[j]>>)
                             <= QRead(table, <<state, actions[i]>>)
         IN QRead(table, <<state, actions[best]>>)

Keys(table) == { table[i].key : i \in DOMAIN table }

\* C8: update_rl_table(s, a, r, s', A) moves Q(s,a) by
\* 0.1 * (r + 0.9 * max_{a' in A} Q(s',a') - Q(s,a)), unwritten pairs reading
\* as 0, and changes no other entry
C8_QUpdateRule ==
    [][ (last_op' = "update" /\ Len(rl_log') = Len(rl_log) + 1) =>
          LET u == last_update'
              key == <<u.state, u.action>>
              old == QRead(q_table, key)
          IN /\ 100 * (QRead(q_table', key) - old) =
                    10 * u.reward * QScale
                    + 9 * QMax(q_table, u.next_state, u.valid_next_actions)
                    - 10 * old
             /\ Keys(q_table') = Keys(q_table) \cup {key}
             /\ \A k \in Keys(q_table) \ {key} : QRead(q_table', k) = QRead(q_table, k) ]_vars

\* an update of an entry that already had a value, bootstrapping from a
\* non-zero Q-value of the next state
C8_Witness ==
    /\ last_op = "update"
    /\ last_update.current_q # 0
    /\ last_update.max_next_q # 0
    /\ last_update.new_q # last_update.current_q

NoDelim(str) == \A i \in DOMAIN str : str[i] # "_"

NoDelimKeys(table) ==
    \A i \in DOMAIN table : NoDelim(table[i].key[1]) /\ NoDelim(table[i].key[2])

\* C9: when no state or action of the table contains '_', load_policy after
\* save_policy yields the same (state, action) -> value mapping
C9_RoundTrip ==
    (last_op = "load" /\ policy_file.exists /\ NoDelimKeys(saved_table)) =>
        Mapping(q_table) = Mapping(saved_table)

\* a table of two delimiter-free entries was saved and loaded back
C9_Witness ==
    /\ last_op = "load"
    /\ policy_file.exists
    /\ NoDelimKeys(saved_table)
    /\ Len(saved_table) >= 2
    /\ \E i \in DOMAIN q_table : q_table[i].value # 0

\* the state keys extract_state produces
ExtractStateKeys ==
    { extract_state(app_name, env, status, bucket) :
          app_name \in {Web, SampleBackend}, env \in {Prod, Stage},
          status \in {"healthy", "degraded", "failed"}, bucket \in {0, 5, 12} }

\* C10: after save_policy and load_policy the lookup Q(state, action), for a
\* state key of extract_state and an action of the vocabulary, returns the
\* value stored before the export
C10_LookupAfterReload ==
    (last_op = "load" /\ policy_file.exists) =>
        \A i \in DOMAIN saved_table :
            ( /\ saved_table[i].key[1] \in ExtractStateKeys
              /\ saved_table[i].key[2] \in
                     {Deploy, Stop, Restart, ScaleUp, ScaleDown, Rollback} )
                => DictGet(q_table, saved_table[i].key, 0) = saved_table[i].value

(***************************************************************************)
(* Properties of run_rl_cycle under Executor errors, of spec loading and   *)
(* of the action space.                                                    *)
(***************************************************************************)
\* C11: an error raised by an Executor call does not end run_rl_cycle
\* abnormally: the run goes on to record the cycle, run the remaining cycles
\* and save the policy
C11_ExecutorErrorAbsorbed ==
    (\E i \in DOMAIN exec_calls : exec_calls[i].outcome = "raise")
        => cyc.pc \in {"executed", "loop", "chosen", "finished"}

\* allowed_actions of _validate_app_spec
AllowedActions == {Deploy, Stop, Restart, ScaleUp, ScaleDown, Rollback}

HasInvalidCustomAction(spec) ==
    /\ "custom_actions" \in DOMAIN spec
    /\ \E i \in DOMAIN spec.custom_actions : spec.custom_actions[i] \notin AllowedActions

\* C12: load_app_spec raises the "Invalid app spec" ValueError for every spec
\* whose custom_actions holds an action outside the vocabulary, and returns
\* no such spec
C12_InvalidActionRejected ==
    ( /\ ld_out.fn = "load_app_spec"
      /\ ld_in.file.exists
      /\ HasInvalidCustomAction(ld_in.file.spec) )
        => /\ ld_out.kind = "ValueError"
           /\ ld_out.message[1] = "Invalid app spec for "
           /\ ld_out.value = EmptyDict

\* a spec that is valid but for one custom action was handed to load_app_spec
C12_Witness ==
    /\ ld_out.fn = "load_app_spec"
    /\ ld_in.file.exists
    /\ DOMAIN ld_in.file.spec = {"name", "type", "scaling", "custom_actions"}
    /\ ld_in.file.spec.scaling = [enabled |-> TRUE, min_workers |-> 1, max_workers |-> 2]
    /\ ld_in.file.spec.custom_actions = <<Deploy, InvalidAction>>
    /\ ld_out.kind = "ValueError"

\* C13: a spec with a scaling block that load_app_spec returns has
\* 1 <= min_workers <= max_workers <= 10 for the bounds it declares
C13_AcceptedScalingBounds ==
    ( /\ ld_out.fn = "load_app_spec"
      /\ ld_out.kind = "spec"
      /\ "scaling" \in DOMAIN ld_out.value )
        => LET scaling == ld_out.value.scaling
               has_min == "min_workers" \in DOMAIN scaling
               has_max == "max_workers" \in DOMAIN scaling
           IN /\ has_min => 1 <= scaling.min_workers
              /\ has_max => scaling.max_workers <= 10
              /\ (has_min /\ has_max) => scaling.min_workers <= scaling.max_workers

LacksRequired(spec) == ~ ("name" \in DOMAIN spec /\ "type" \in DOMAIN spec)

ScalingEnabled(spec) ==
    /\ "scaling" \in DOMAIN spec
    /\ "enabled" \in DOMAIN spec.scaling
    /\ spec.scaling.enabled

\* C15: get_valid_actions(spec) holds deploy, stop and restart; leaving the
\* custom actions aside it holds scale_up and scale_down exactly when
\* scaling.enabled is true; with no scaling block and no custom actions it is
\* exactly deploy, stop, restart
C15_ValidActions ==
    ld_out.fn = "get_valid_actions" =>
        LET spec == ld_in.file.spec
            actions == ld_out.value
            custom == Get(spec, "custom_actions", <<>>)
        IN /\ InList(Deploy, actions) /\ InList(Stop, actions) /\ InList(Restart, actions)
           /\ \A a \in {ScaleUp, ScaleDown} :
                 ~ InList(a, custom) => (InList(a, actions) <=> ScalingEnabled(spec))
           /\ ("scaling" \notin DOMAIN spec /\ "custom_actions" \notin DOMAIN spec)
                 => actions = <<Deploy, Stop, Restart>>

\* get_valid_actions ran on a spec whose scaling block is present but not
\* enabled, with a custom action
C15_Witness ==
    /\ ld_out.fn = "get_valid_actions"
    /\ "scaling" \in DOMAIN ld_in.file.spec
    /\ "enabled" \in DOMAIN ld_in.file.spec.scaling
    /\ ~ ld_in.file.spec.scaling.enabled
    /\ "max_workers" \in DOMAIN ld_in.file.spec.scaling
    /\ ld_out.value = <<Deploy, Stop, Restart, Rollback>>

\* C16: calculate_reward returns a strictly positive value for every
\* transition whose status ordinal improves, whose latency and error rate do
\* not increase and whose other metrics are absent
C16_ImprovementPositive ==
    ( /\ rw_result # NoResult
      /\ DOMAIN rw_in.new_state \subseteq {"status", "avg_latency", "error_rate"}
      /\ StatusValue(Get(rw_in.new_state, "status", "unknown"))
             > StatusValue(Get(rw_in.prev_state, "status", "unknown"))
      /\ 0 <= Get(rw_in.new_state, "avg_latency", 100)
      /\ Get(rw_in.new_state, "avg_latency", 100) <= Get(rw_in.prev_state, "avg_latency", 100)
      /\ 0 <= Get(rw_in.new_state, "error_rate", 0)
      /\ Get(rw_in.new_state, "error_rate", 0) <= Get(rw_in.prev_state, "error_rate", 0) )
        => /\ rw_result.kind = "value"
           /\ rw_result.den > 0
           /\ rw_result.num > 0

\* C17: extract_state gives two reads the same key exactly when they agree on
\* (app, env, status, error-rate bucket)
C17_KeyInjective ==
    key_out # <<>> => ((key_out[1] = key_out[2]) <=> (key_in[1] = key_in[2]))

\* the providers that yield field f, in the order of metric_sources
Yielding(yields, f) ==
    { i \in DOMAIN metric_sources :
          /\ yields[metric_sources[i]] # <<>>
          /\ f \in DOMAIN yields[metric_sources[i]][1] }

FirstYield(yields, f) ==
    LET first == CHOOSE i \in Yielding(yields, f) : \A j \in Yielding(yields, f) : i <= j
    IN yields[metric_sources[first]][1][f]

\* C18: every field of the state extract_real_state builds has the value of
\* the first provider, in the order logs, process, http_health, docker, that
\* yielded the field; the status it returns is that first status
C18_FirstProviderWins ==
    det_out # NoState =>
        /\ \A f \in DOMAIN det_out.merged :
              Yielding(det_in.yields, f) # {}
                  => det_out.merged[f] = FirstYield(det_in.yields, f)
        /\ ( /\ det_out.kind = "value"
             /\ Yielding(det_in.yields, "status") # {}
             /\ FirstYield(det_in.yields, "status") # "unknown" )
               => det_out.state.status = FirstYield(det_in.yields, "status")

\* C19: execute_action('restart') that returns has made exactly two Executor
\* calls for the pair, stop_app then deploy_app, and returns the outcome of
\* deploy_app; when a call raises, the calls made are a prefix of the two; the
\* Executor never receives a 'restart'
C19_RestartIsStopThenDeploy ==
    /\ \A i \in DOMAIN exec_calls : exec_calls[i].op # "restart"
    /\ (cyc.pc \in {"executed", "crashed"} /\ cyc.action = Restart) =>
          /\ Len(cyc.calls) \in {1, 2}
          /\ cyc.calls[1].op = "stop_app"
          /\ Len(cyc.calls) = 2 => cyc.calls[2].op = "deploy_app"
          /\ \A i \in DOMAIN cyc.calls :
                cyc.calls[i].app_name = cyc.app_name /\ cyc.calls[i].env = cyc.env
          /\ cyc.pc = "executed" =>
                /\ Len(cyc.calls) = 2
                /\ cyc.result = cyc.calls[2].outcome

\* a restart whose stop_app failed and whose deploy_app succeeded
C19_Witness ==
    /\ cyc.pc = "executed"
    /\ cyc.action = Restart
    /\ Len(cyc.calls) = 2
    /\ cyc.calls[1].outcome = "failed"
    /\ cyc.calls[2].outcome = "success"
    /\ cyc.result = "success"

\* C20: a step that completes a cycle appends exactly one row, the row of
\* that cycle, to the event log; no other step of the run touches the log;
\* after n cycles the file holds the header and n rows
C20_AuditLogAppendOnly ==
    [][ /\ cyc'.cycle = cyc.cycle + 1 =>
              /\ Len(rl_log') = Len(rl_log) + 1
              /\ \A i \in DOMAIN rl_log : rl_log'[i] = rl_log[i]
              /\ rl_log'[Len(rl_log')].state = cyc.state
              /\ rl_log'[Len(rl_log')].action = cyc.action
        /\ cyc'.cycle = cyc.cycle => rl_log' = rl_log
        /\ cyc'.cycle \in {cyc.cycle, cyc.cycle + 1}
        /\ Len(LogFile(rl_log')) = 1 + cyc'.cycle
        /\ LogFile(rl_log')[1] = LogHeader ]_vars

\* a run of MaxUpdates cycles ended with as many rows, the first two of
\* different cycles
C20_Witness ==
    /\ cyc.pc = "finished"
    /\ cyc.cycle = MaxUpdates
    /\ Len(rl_log) = MaxUpdates
    /\ rl_log[1].action # rl_log[2].action
    /\ exec_calls # <<>>

(***************************************************************************)
(* Properties of update_rl_table under concurrent calls and log failures.  *)
(***************************************************************************)
\* the table after one uninterrupted update_rl_table call
SerialUpdate(table, args) ==
    DictSet(table, <<args.state, args.action>>,
            NewQ(DictGet(table, <<args.state, args.action>>, 0), args.reward,
                 MaxNextQ(table, args.next_state, args.valid_next_actions)))

\* C21: once two loops have both written the same (state, action) entry, the
\* table is the one some serial order of the two update_rl_table calls gives
C21_ConcurrentUpdatesSerializable ==
    ( /\ \A i \in Loops : upd.loops[i].pc \in {"written", "done", "OSError"}
      /\ upd.loops[1].args.state = upd.loops[2].args.state
      /\ upd.loops[1].args.action = upd.loops[2].args.action )
        => Mapping(q_table) \in
               { Mapping(SerialUpdate(SerialUpdate(upd.table0, upd.loops[1].args),
                                      upd.loops[2].args)),
                 Mapping(SerialUpdate(SerialUpdate(upd.table0, upd.loops[2].args),
                                      upd.loops[1].args)) }

\* C22: when the append of the audit row fails inside an update_rl_table call
\* that no other call overlapped, the Q-table is as it was before the call
C22_UpdateAllOrNothing ==
    \A i \in Loops :
        (upd.loops[i].pc = "OSError" /\ upd.loops[i].serial)
            => Mapping(q_table) = Mapping(upd.loops[i].table_before)

(***************************************************************************)
(* Properties of the Safety Gate's schema check, fallback, ledger and      *)
(* enforcement levels.                                                     *)
(***************************************************************************)
\* the forbidden_actions a spec lists for an environment
ForbiddenFor(spec, env) ==
    LET env_constraints == Get(spec, "environment_constraints", EmptyDict)
    IN IF env \in DOMAIN env_constraints
       THEN Get(env_constraints[env], "forbidden_actions", <<>>)
       ELSE <<>>

\* C23: for a spec load_app_spec accepts, the schema check passes an action
\* exactly when the action is in get_valid_actions(spec) and not among the
\* spec's forbidden_actions for the environment, and an action outside
\* get_valid_actions(spec) draws the 'not in app spec valid actions' violation
C23_SchemaCheckMatchesActionSpace ==
    ( /\ ld_out.fn = "_validate_against_schema"
      /\ _validate_app_spec(ld_in.file.spec) )
        => LET spec == ld_in.file.spec
               action == ld_out.value.action
               violations == ld_out.value.violations
               valid == InList(action, get_valid_actions(spec))
           IN /\ (violations = <<>>) <=>
                     (valid /\ ~ InList(action, ForbiddenFor(spec, ld_out.value.env)))
              /\ ~ valid => InList("not in app spec valid actions", violations)

\* what the claimed table gives for a blocked attempt
ClaimedFallback(original_action, env, current_state) ==
    CASE original_action = ScaleUp -> Restart
      [] original_action = Stop /\ env = Prod -> ScaleDown
      [] OTHER -> IF Get(current_state, "status", "None") = "healthy"
                  THEN Deploy ELSE Restart

\* C24: get_safe_fallback_action returns Restart for scale_up, ScaleDown for
\* stop in prod, and otherwise Restart when the status is not healthy and
\* Deploy when it is; a repeated call returns the same action
C24_FallbackTable ==
    \A i \in DOMAIN fb_out :
        /\ fb_out[i] = ClaimedFallback(fb_in.original_action, fb_in.env, fb_in.current_state)
        /\ fb_out[i] = fb_out[1]

\* stop on a healthy production instance was asked about twice
C24_Witness ==
    /\ Len(fb_out) = 2
    /\ fb_in.original_action = Stop
    /\ fb_in.env = Prod
    /\ Get(fb_in.current_state, "status", "None") = "healthy"
    /\ fb_out[2] = ScaleDown

\* the attempts _log_action_attempt was called for, oldest first
LoggedAttempts == SelectSeq(attempt_log, LAMBDA e : e.logged)

\* C25: the Action History holds at most HistoryCap entries and is the most
\* recent min(n, HistoryCap) of the n logged attempts, in the order they were
\* logged
C25_LedgerIsRecentWindow ==
    LET n == Len(LoggedAttempts)
        kept == Min(n, HistoryCap)
    IN /\ Len(action_history) <= HistoryCap
       /\ Len(action_history) = kept
       /\ \A i \in 1..kept :
             LET e == LoggedAttempts[n - kept + i]
             IN /\ action_history[i].action = e.action
                /\ action_history[i].app_name = e.app_name
                /\ action_history[i].env = e.env
                /\ action_history[i].timestamp = e.timestamp
                /\ action_history[i].violations = e.violations

\* more attempts than the capacity were logged at different times, so that
\* the oldest were evicted
C25_Witness ==
    /\ Len(LoggedAttempts) > HistoryCap
    /\ Len(action_history) = HistoryCap
    /\ LoggedAttempts[1].timestamp < action_history[1].timestamp

Flatten4(lists) == lists[1] \o lists[2] \o lists[3] \o lists[4]

\* C26: under STRICT an attempt with a schema violation returns exactly the
\* schema violations, whatever the worker, production, uptime and rate rules
\* would have said; under any other level the result is the schema violations
\* followed by the violations of those four rules in that order
C26_EnforcementLevels ==
    \A i \in DOMAIN attempt_log :
        LET e == attempt_log[i]
        IN IF e.level = "STRICT" /\ e.schema_violations # <<>>
           THEN /\ e.violations = e.schema_violations
                /\ ~ e.logged
           ELSE /\ e.violations = e.schema_violations \o Flatten4(e.rule_violations)
                /\ e.logged

\* a STRICT attempt cut short by its schema violation although two of the
\* four rules would have fired
C26_Witness ==
    \E i \in DOMAIN attempt_log :
        /\ attempt_log[i].level = "STRICT"
        /\ attempt_log[i].schema_violations # <<>>
        /\ Len(Flatten4(attempt_log[i].rule_violations)) >= 2
        /\ Len(attempt_log[i].violations) = 1

(***************************************************************************)
(* Properties of action selection, of the Q-table keys and of the reward   *)
(* a cycle learns from.                                                    *)
(***************************************************************************)
\* C27: the action choose_action returns is in get_valid_actions(spec); when
\* it exploits, the Q-value of that action for the current state is the
\* maximum over the valid actions; the call leaves the Q-table as it was
C27_ChooseAction ==
    [][ (cyc.pc = "loop" /\ cyc'.pc = "chosen") =>
          LET valid_actions == get_valid_actions(cyc.app_spec)
          IN /\ InList(cyc'.chosen, valid_actions)
             /\ ~ cyc'.explored =>
                   QRead(q_table, <<cyc'.state, cyc'.chosen>>)
                       = QMax(q_table, cyc'.state, valid_actions)
             /\ q_table' = q_table ]_vars

\* an exploiting choice in a state where the valid actions do not all have
\* the same Q-value
C27_Witness ==
    /\ cyc.pc = "chosen"
    /\ ~ cyc.explored
    /\ \E i \in DOMAIN get_valid_actions(cyc.app_spec) :
          QRead(q_table, <<cyc.state, get_valid_actions(cyc.app_spec)[i]>>)
              < QRead(q_table, <<cyc.state, cyc.chosen>>)
    /\ QRead(q_table, <<cyc.state, cyc.chosen>>) = 0

\* C28: no update_rl_table, save_policy or load_policy call removes a
\* (state, action) key from the Q-table
C28_KeysNeverLost ==
    [][ Keys(q_table) \subseteq Keys(q_table') ]_vars

\* C29: the reward a cycle passes to update_rl_table lies in [-10, 10]
C29_LearnedRewardInRange ==
    last_op = "update" => (-10 <= last_update.reward /\ last_update.reward <= 10)

\* C30: a cycle whose Executor outcome is 'failed' or 'unknown_action'
\* records a reward <= 0 and the loop goes on to the next cycle
C30_FailedOutcomePenalised ==
    [][ (cyc.pc = "executed" /\ cyc.result \in {"failed", "unknown_action"}
         /\ cyc'.pc # "executed") =>
          /\ cyc'.pc = "loop"
          /\ cyc'.cycle = cyc.cycle + 1
          /\ last_update'.reward <= 0 ]_vars

(***************************************************************************)
(* Properties of the state detector's normalisation.                       *)
(***************************************************************************)
\* the status the metrics of a normalised state stand for
DerivedStatus(state) ==
    IF state.error_rate > 10 THEN "failed"
    ELSE IF state.cpu_usage > 90 \/ state.memory_usage > 95 THEN "degraded"
    ELSE "healthy"

\* C31: _normalize_state returns an explicitly reported status unchanged,
\* whatever the metrics are, and derives the status from the metrics (error
\* rate > 0.1 failed, else CPU > 0.9 or memory > 0.95 degraded, else healthy)
\* only when the status is 'unknown'
C31_StatusDerivedOnlyWhenUnknown ==
    det_out.kind = "value" =>
        LET reported == Get(det_out.merged, "status", "unknown")
        IN det_out.state.status =
              IF reported # "unknown" THEN reported ELSE DerivedStatus(det_out.state)

\* a reported status 'healthy' returned unchanged although the CPU usage is
\* above the threshold of 'degraded'
C31_Witness ==
    /\ det_out.kind = "value"
    /\ Get(det_out.merged, "status", "unknown") = "healthy"
    /\ det_out.state.cpu_usage > 90
    /\ det_out.state.status = "healthy"

\* a status 'unknown' replaced by the one the metrics stand for
C31_DerivedWitness ==
    /\ det_out.kind = "value"
    /\ Get(det_out.merged, "status", "unknown") = "unknown"
    /\ det_out.state.status \in {"failed", "degraded"}

\* C32: whatever the providers yield, extract_real_state returns a
\* normalised state and does not raise
C32_ExtractNeverRaises ==
    det_out # NoState => det_out.kind = "value"

\* C33: the audit row of a cycle carries the application name and the
\* environment of that cycle in its app_name and env columns
C33_AuditRowNamesTheCycle ==
    \A i \in DOMAIN rl_log :
        rl_log[i].app_name = cyc.app_name /\ rl_log[i].env = cyc.env

(***************************************************************************)
(* Properties relating the action space of a spec to the fallback and to   *)
(* the dispatch of execute_action.                                         *)
(***************************************************************************)
\* C34: when the app's spec is accepted by load_app_spec, the fallback
\* get_safe_fallback_action returns for a blocked action is one of
\* get_valid_actions(spec)
C34_FallbackIsValidAction ==
    LET loaded == load_app_spec(fb_in.app_name, fb_in.file)
    IN (loaded.kind = "spec" /\ fb_out # NoFallback) =>
          InList(fb_out[1], get_valid_actions(loaded.spec))

\* C35: execute_action dispatches every action of get_valid_actions(spec) to
\* at least one Executor call and returns 'unknown_action' for none of them
C35_ValidActionsDispatched ==
    (cyc.pc = "executed" /\ InList(cyc.action, get_valid_actions(cyc.app_spec))) =>
        (cyc.calls # <<>> /\ cyc.result # "unknown_action")

(***************************************************************************)
(* Properties of the simulated orchestrator.                               *)
(***************************************************************************)
\* the worker count recorded for a pair in dict apps
WorkersOf(apps, app_name, env) == apps[app_key(app_name, env)].workers

\* C36: for a deployed application with 1 to 3 workers, execute_action with
\* scale_up never lowers the worker count and with scale_down never raises it
C36_ScaleDirectionRespected ==
    (/\ orch_out.op \in {"execute_scale_up", "execute_scale_down"}
     /\ app_key(orch_out.app_name, orch_out.env) \in DOMAIN orch_out.apps_before) =>
        LET before == WorkersOf(orch_out.apps_before, orch_out.app_name, orch_out.env)
            after == WorkersOf(deployed_apps, orch_out.app_name, orch_out.env)
        IN before \in 1..3 =>
              IF orch_out.op = "execute_scale_up" THEN after >= before ELSE after <= before

\* C40: every deployed application has 1 to 3 workers, and a stop or scale
\* call for an (app, env) pair deploy was never called for returns 'failed'
\* and leaves deployed_apps and app_status as they were
C40_OrchestratorInvariants ==
    /\ \A key \in DOMAIN deployed_apps : deployed_apps[key].workers \in 1..3
    /\ (/\ orch_out.op \in {"stop", "scale"}
        /\ <<orch_out.app_name, orch_out.env>> \notin deployed_pairs) =>
          /\ orch_out.status = "failed"
          /\ deployed_apps = orch_out.apps_before
          /\ app_status = orch_out.status_before

(***************************************************************************)
(* Properties of the rate rule.                                            *)
(***************************************************************************)
RateMessage == "Action frequency limit exceeded"

\* the entries of the Action History of a pair with a timestamp in the
\* trailing 60 seconds
RecordedInWindow(app_name, env) ==
    { i \in DOMAIN action_history :
        /\ action_history[i].app_name = app_name
        /\ action_history[i].env = env
        /\ action_history[i].timestamp > now - 60 }

\* the attempt just made is blocked by the rate rule exactly when the Action
\* History held at least max_actions_per_minute attempts of its pair in the
\* trailing 60 seconds
RateExact(e) ==
    InList(RateMessage, e.violations)
        <=> Cardinality(RecordedInWindow(e.app_name, e.env))
                >= schema.constraints.max_actions_per_minute

\* C37 as stated: every attempt is blocked by the rate rule exactly when at
\* least max_actions_per_minute attempts of its pair are recorded in the
\* Action History with a timestamp in the trailing 60 seconds
C37_RateRuleExactForEveryAttempt ==
    [][ Len(attempt_log') = Len(attempt_log) + 1 => RateExact(Last(attempt_log')) ]_vars

\* C37: an attempt that is not stopped by the STRICT schema check is blocked
\* by the rate rule exactly when at least max_actions_per_minute attempts of
\* its pair, approved or blocked, are recorded in the Action History with a
\* timestamp in the trailing 60 seconds; an attempt stopped by the STRICT
\* schema check is never blocked by the rate rule
C37_RateRuleExact ==
    [][ Len(attempt_log') = Len(attempt_log) + 1 =>
          LET e == Last(attempt_log')
          IN IF e.level = "STRICT" /\ e.schema_violations # <<>>
             THEN ~ InList(RateMessage, e.violations)
             ELSE RateExact(e) ]_vars

\* a pair blocked by the rate rule, then not blocked by it on a later attempt
\* made after its window emptied, while the other pair made attempts
C37_Witness ==
    \E j, k \in DOMAIN attempt_log :
        /\ j < k
        /\ attempt_log[j].app_name = attempt_log[k].app_name
        /\ attempt_log[j].env = attempt_log[k].env
        /\ InList(RateMessage, attempt_log[j].violations)
        /\ attempt_log[k].violations = <<>>
        /\ \E m \in DOMAIN attempt_log : attempt_log[m].env # attempt_log[j].env

(***************************************************************************)
(* Properties of the Q-values and of the exported keys.                    *)
(***************************************************************************)
\* C38: with every reward in [-10, 10], updates of a table whose values are
\* in [-100, 100] (the empty table and all that follow from it) leave every
\* Q-value in [-100, 100]
C38_QValuesBounded ==
    \A i \in DOMAIN q_table :
        -100 * QScale <= q_table[i].value /\ q_table[i].value <= 100 * QScale

\* an update with reward 10 of an entry at 100 whose next state is worth 100:
\* the new value is 100 again
C38_Witness ==
    /\ last_op = "update"
    /\ last_update.reward = 10
    /\ last_update.current_q = 100 * QScale
    /\ last_update.max_next_q = 100 * QScale
    /\ last_update.new_q = 100 * QScale

\* C39: with actions from the vocabulary, save_policy gives different
\* (state, action) pairs of the table different snapshot keys: the snapshot
\* has one key per entry and holds the value of every entry
C39_SnapshotKeysInjective ==
    last_op = "save" =>
        /\ Len(policy_file.q_table) = Len(saved_table)
        /\ \A i, j \in DOMAIN policy_file.q_table :
              i # j => policy_file.q_table[i].key # policy_file.q_table[j].key
        /\ \A i \in DOMAIN saved_table :
              \E j \in DOMAIN policy_file.q_table :
                  policy_file.q_table[j].value = saved_table[i].value

\* a snapshot of two entries whose states differ by the first word of the
\* other entry's action
C39_Witness ==
    /\ last_op = "save"
    /\ Len(saved_table) = 2
    /\ saved_table[1].key = << <<"s">>, ScaleUp >>
    /\ saved_table[2].key = << <<"s", "_", "scale">>, Deploy >>
    /\ Len(policy_file.q_table) = 2

====
